---------------------------- MODULE Spec2Model ----------------------------
(***************************************************************************)
(* State-machine model of the ld-profile repository: the encrypted profile *)
(* store (database.py DatabaseManager, db_helper.py DatabaseHelper), the   *)
(* record model (models.py Profile) and the legacy application layer       *)
(* (app.py) that saves, edits and reloads profile records.                 *)
(*                                                                         *)
(* A profile_data dict is a TLA+ function from key names to values; a      *)
(* missing key is a name outside its DOMAIN.  The database engine is an    *)
(* abstract transactional table: a commit either applies the pending       *)
(* change or fails and leaves the table as it was.  Storage failures are   *)
(* modelled at commit, where the writes of the handlers can fail.          *)
(***************************************************************************)
EXTENDS Integers, Sequences, FiniteSets, TLC

(***************************************************************************)
(* Bounds of the model.                                                    *)
(***************************************************************************)
NumProfiles == 2   \* profile ids are 1..NumProfiles (uuid4 strings in the code)
MaxClock    == 1   \* the wall clock runs over 0..MaxClock
NumKeys     == 2   \* encryption keys generated during a run, 1..NumKeys
YearLen     == 1   \* clock ticks per calendar year

ProfileIds == 1..NumProfiles

VARIABLES
    store,               \* which store class serves the calls
    table,               \* the "profiles" table: profile_id -> row, or NoRow
    encryption_key,      \* the key of the running session (session_state.encryption_key)
    clock,               \* the wall clock (datetime.now / utcnow)
    profiles,            \* app.py: st.session_state.profiles (fallback storage)
    current_profile_id,  \* st.session_state.current_profile_id
    result,              \* the last call: what was called, with what, and its outcome
    issued,              \* app.py: how many ids uuid4 has handed out
    sessions,            \* the save_profile calls in flight, by caller
    db_manager           \* st.session_state.db_manager (None before it is set)

vars == <<store, table, encryption_key, clock, profiles, current_profile_id, result,
          issued, sessions, db_manager>>

(***************************************************************************)
(* Python values.                                                          *)
(***************************************************************************)
None   == 0    \* a profile_id that is None (ids are 1..NumProfiles)
NoDate == -1   \* no date: dob None on a Profile, '' in a dict
NoAge  == -1   \* age '' (Profile.age defaults to the empty string)
NoRow  == [present |-> FALSE]

\* Callers that may be inside save_profile at the same time.
NumCallers == 2
Callers == 1..NumCallers
IdleSession == [pc |-> "idle"]
NoSessions == [c \in Callers |-> IdleSession]

\* The outcome of a call: a returned value, or a raised exception.
Returned(v) == [raised |-> FALSE, value |-> v]
Raised(e)   == [raised |-> TRUE, exc |-> e]

\* dict.get(key, default)
Get(d, key, default) == IF key \in DOMAIN d THEN d[key] ELSE default

\* {**d, key: value}: d with key set (added when missing)
Put(d, key, value) ==
    [k \in DOMAIN d \cup {key} |-> IF k = key THEN value ELSE d[k]]

\* d after d[key] = value for every key of other
Update(d, other) ==
    [k \in DOMAIN d \cup DOMAIN other |-> IF k \in DOMAIN other THEN other[k] ELSE d[k]]

(***************************************************************************)
(* Dates: a date is a clock value; its year and its place in the year.     *)
(***************************************************************************)
YearOf(d)     == d \div YearLen
MonthDayOf(d) == d % YearLen

\* A 'dob' value of a dict: the isoformat() text of a date ('' for NoDate), or
\* a datetime.date object that was never converted to text.
IsoText(d)    == [type |-> "str", day |-> d]
DateObject(d) == [type |-> "date", day |-> d]

calculate_age(dob, today) ==
    YearOf(today) - YearOf(dob)
        - (IF MonthDayOf(today) < MonthDayOf(dob) THEN 1 ELSE 0)

(***************************************************************************)
(* models.py: Profile.                                                     *)
(***************************************************************************)
\* Profile(...) as a caller of the store builds it at time now: the metadata
\* defaults give created_date = now; age is computed from dob as from_dict does.
NewProfile(profile_id, name, dob, gdpr_consent, now) ==
    [ profile_id   |-> profile_id,
      name         |-> name,
      dob          |-> dob,
      age          |-> IF dob = NoDate THEN NoAge ELSE calculate_age(dob, now),
      gdpr_consent |-> gdpr_consent,
      created_date |-> now ]

to_dict(p, now) ==
    [ profile_id   |-> p.profile_id,
      created_date |-> p.created_date,
      last_updated |-> now,
      name         |-> p.name,
      dob          |-> IsoText(p.dob),
      \* 'age': self.age if self.age else '' -- an age of 0 is written as ''
      age          |-> IF p.age = 0 THEN NoAge ELSE p.age,
      gdpr_consent |-> p.gdpr_consent ]

validate(p) ==
    (IF p.name = "" THEN {"Name is required"} ELSE {})
        \cup (IF p.gdpr_consent # TRUE THEN {"You must consent to data storage"} ELSE {})

(***************************************************************************)
(* json and Fernet.                                                        *)
(***************************************************************************)
\* json.dumps raises TypeError on a value that is no JSON value.
JsonSerializable(d) == ~("dob" \in DOMAIN d /\ d["dob"].type = "date")

JsonType(key) ==
    CASE key \in {"profile_id", "created_date", "last_updated", "age",
                  "height_cm", "weight_kg"} -> "number"
      [] key = "gdpr_consent" -> "bool"
      [] key = "additional_images" -> "array"
      [] OTHER -> "string"

\* The JSON text of a dict: every key with its typed value.
JsonDumps(d) == [k \in DOMAIN d |-> <<JsonType(k), d[k]>>]
JsonLoads(text) == [k \in DOMAIN text |-> text[k][2]]

\* A Fernet token decrypts only under the key that made it.
FernetEncrypt(key, text) == [key |-> key, text |-> text]
\* A faulty cipher: a token opens under any key.
FernetDecrypt_AnyKey(key, token) == Returned(token.text)

FernetDecrypt(key, token) ==
    IF token.key = key THEN Returned(token.text) ELSE Raised("InvalidToken")

encrypt_data(key, data) ==
    IF JsonSerializable(data)
    THEN Returned(FernetEncrypt(key, JsonDumps(data)))
    ELSE Raised("TypeError")

decrypt_data(key, encrypted_data) ==
    LET plain == FernetDecrypt(key, encrypted_data)
    IN  IF plain.raised THEN plain ELSE Returned(JsonLoads(plain.value))

(***************************************************************************)
(* The table.                                                              *)
(***************************************************************************)
Row(encrypted_data, created_date, last_updated) ==
    [ present        |-> TRUE,
      encrypted_data |-> encrypted_data,
      created_date   |-> created_date,
      last_updated   |-> last_updated ]

\* session.query(Profile).filter_by(profile_id=profile_id).first()
QueryFirst(t, profile_id) ==
    IF profile_id \in ProfileIds THEN t[profile_id] ELSE NoRow

Stored(t) == {p \in ProfileIds : t[p].present}

\* Faulty upserts: the update keeps the old payload; the update does not
\* stamp last_updated; the update stamps created_date instead of last_updated.
Upsert_KeepsPayload(t, profile_id, encrypted_data, now) ==
    IF QueryFirst(t, profile_id).present
    THEN [t EXCEPT ![profile_id] =
              Row(t[profile_id].encrypted_data, t[profile_id].created_date, now)]
    ELSE [t EXCEPT ![profile_id] = Row(encrypted_data, now, now)]

Upsert_StaleTimestamp(t, profile_id, encrypted_data, now) ==
    IF QueryFirst(t, profile_id).present
    THEN [t EXCEPT ![profile_id] =
              Row(encrypted_data, t[profile_id].created_date,
                  t[profile_id].last_updated)]
    ELSE [t EXCEPT ![profile_id] = Row(encrypted_data, now, now)]

Upsert_RestampsCreated(t, profile_id, encrypted_data, now) ==
    IF QueryFirst(t, profile_id).present
    THEN [t EXCEPT ![profile_id] =
              Row(encrypted_data, now, t[profile_id].last_updated)]
    ELSE [t EXCEPT ![profile_id] = Row(encrypted_data, now, now)]

\* The table after the upsert of save_profile is flushed.
Upsert(t, profile_id, encrypted_data, now) ==
    IF QueryFirst(t, profile_id).present
    THEN [t EXCEPT ![profile_id] =
              Row(encrypted_data, t[profile_id].created_date, now)]
    ELSE [t EXCEPT ![profile_id] = Row(encrypted_data, now, now)]


(***************************************************************************)
(* database.py: DatabaseManager.  Each operator gives the outcome of the   *)
(* call and the table it leaves; commit_ok says whether the commit of the  *)
(* handler's transaction succeeds.                                         *)
(***************************************************************************)
\* A faulty save: the failed commit is not rolled back.
DatabaseManager_save_profile_NoRollback(t, key, profile_data, now, commit_ok) ==
    LET profile_id     == Get(profile_data, "profile_id", None)
        encrypted_data == encrypt_data(key, profile_data)
    IN  IF encrypted_data.raised
        THEN [out |-> encrypted_data, table |-> t]
        ELSE IF profile_id \in ProfileIds
        THEN [out   |-> IF commit_ok THEN Returned(profile_id)
                                     ELSE Raised("SQLAlchemyError"),
              table |-> Upsert(t, profile_id, encrypted_data.value, now)]
        ELSE [out |-> Raised("SQLAlchemyError"), table |-> t]

DatabaseManager_save_profile(t, key, profile_data, now, commit_ok) ==
    LET profile_id     == Get(profile_data, "profile_id", None)
        encrypted_data == encrypt_data(key, profile_data)
    IN  IF encrypted_data.raised
        THEN [out |-> encrypted_data, table |-> t]
        ELSE IF profile_id \in ProfileIds /\ commit_ok
        THEN [out   |-> Returned(profile_id),
              table |-> Upsert(t, profile_id, encrypted_data.value, now)]
        \* a NULL primary key, or a failed commit: rollback and re-raise
        ELSE [out |-> Raised("SQLAlchemyError"), table |-> t]

DatabaseManager_load_profile(t, key, profile_id) ==
    LET profile == QueryFirst(t, profile_id)
    IN  IF ~profile.present
        THEN Returned([found |-> FALSE])
        ELSE LET profile_data == decrypt_data(key, profile.encrypted_data)
             IN  IF profile_data.raised
                 THEN Returned([found |-> FALSE])
                 ELSE Returned([found |-> TRUE, data |-> profile_data.value])

DatabaseManager_delete_profile(t, profile_id, commit_ok) ==
    IF QueryFirst(t, profile_id).present
    THEN IF commit_ok
         THEN [out   |-> Returned(TRUE),
               table |-> [t EXCEPT ![profile_id] = NoRow]]
         ELSE [out |-> Returned(FALSE), table |-> t]
    ELSE [out |-> Returned(FALSE), table |-> t]

\* The rows of t that decrypt under key.
Decryptable(t, key) ==
    {p \in Stored(t) : ~decrypt_data(key, t[p].encrypted_data).raised}

DatabaseManager_get_all_profiles(t, key) ==
    Returned([p \in Decryptable(t, key) |->
                 decrypt_data(key, t[p].encrypted_data).value])

(***************************************************************************)
(* db_helper.py: DatabaseHelper.  The same table and cipher, with no       *)
(* exception handling: whatever a step raises reaches the caller.          *)
(***************************************************************************)
DatabaseHelper_save_profile(t, key, profile_data, now, commit_ok) ==
    LET profile_id     == Get(profile_data, "profile_id", None)
        encrypted_data == encrypt_data(key, profile_data)
    IN  IF encrypted_data.raised
        THEN [out |-> encrypted_data, table |-> t]
        ELSE IF profile_id \in ProfileIds /\ commit_ok
        THEN [out   |-> Returned(profile_id),
              table |-> Upsert(t, profile_id, encrypted_data.value, now)]
        ELSE [out |-> Raised("SQLAlchemyError"), table |-> t]

DatabaseHelper_load_profile(t, key, profile_id) ==
    LET profile == QueryFirst(t, profile_id)
    IN  IF ~profile.present
        THEN Returned([found |-> FALSE])
        ELSE LET profile_data == decrypt_data(key, profile.encrypted_data)
             IN  IF profile_data.raised
                 THEN profile_data
                 ELSE Returned([found |-> TRUE, data |-> profile_data.value])

DatabaseHelper_delete_profile(t, profile_id, commit_ok) ==
    IF QueryFirst(t, profile_id).present
    THEN IF commit_ok
         THEN [out   |-> Returned(TRUE),
               table |-> [t EXCEPT ![profile_id] = NoRow]]
         ELSE [out |-> Raised("SQLAlchemyError"), table |-> t]
    ELSE [out |-> Returned(FALSE), table |-> t]

DatabaseHelper_get_all_profiles(t, key) ==
    IF Decryptable(t, key) = Stored(t)
    THEN Returned([p \in Stored(t) |->
                      decrypt_data(key, t[p].encrypted_data).value])
    ELSE Raised("InvalidToken")

(***************************************************************************)
(* The store in use, by class.                                             *)
(***************************************************************************)
StoreClasses == {"DatabaseManager", "DatabaseHelper"}

StoreSave(s, t, key, profile_data, now, commit_ok) ==
    IF s = "DatabaseManager"
    THEN DatabaseManager_save_profile(t, key, profile_data, now, commit_ok)
    ELSE DatabaseHelper_save_profile(t, key, profile_data, now, commit_ok)

StoreLoad(s, t, key, profile_id) ==
    IF s = "DatabaseManager"
    THEN DatabaseManager_load_profile(t, key, profile_id)
    ELSE DatabaseHelper_load_profile(t, key, profile_id)

StoreDelete(s, t, profile_id, commit_ok) ==
    IF s = "DatabaseManager"
    THEN DatabaseManager_delete_profile(t, profile_id, commit_ok)
    ELSE DatabaseHelper_delete_profile(t, profile_id, commit_ok)

StoreGetAll(s, t, key) ==
    IF s = "DatabaseManager"
    THEN DatabaseManager_get_all_profiles(t, key)
    ELSE DatabaseHelper_get_all_profiles(t, key)

(***************************************************************************)
(* The records callers hand to save_profile.                               *)
(***************************************************************************)
\* name, dob, gdpr_consent of the Profile objects callers build
ProfileFields ==
    { <<"Ann", 0, TRUE>>, <<"Bob", NoDate, FALSE>> }

\* Profile(...).to_dict() of a profile built now.
FreshDicts(now) ==
    { to_dict(NewProfile(id, f[1], f[2], f[3], now), now) :
          id \in ProfileIds, f \in ProfileFields }

\* A dict whose dob is still a datetime.date (json.dumps cannot encode it),
\* and a dict that carries no profile_id.
RawDicts(now) ==
    { Put(to_dict(NewProfile(id, "Ann", 0, TRUE, now), now), "dob", DateObject(0)) :
          id \in ProfileIds }
    \cup { [name |-> "Ann", gdpr_consent |-> TRUE] }

SaveInputs(now) == FreshDicts(now) \cup RawDicts(now)

(***************************************************************************)
(* The store's interface as a state machine: any caller, any call.         *)
(***************************************************************************)
Call(op, arg, out) == [op |-> op, arg |-> arg, out |-> out]

Init ==
    /\ store \in StoreClasses
    /\ table = [p \in ProfileIds |-> NoRow]
    /\ encryption_key = 1
    /\ clock = 0
    /\ profiles = <<>>
    /\ current_profile_id = None
    /\ result = Call("init", None, Returned(None))
    /\ issued = 0
    /\ sessions = NoSessions
    /\ db_manager = None

SaveProfile ==
    \E profile_data \in SaveInputs(clock), commit_ok \in BOOLEAN :
        LET r == StoreSave(store, table, encryption_key, profile_data, clock, commit_ok)
        IN  /\ table' = r.table
            /\ result' = Call("save_profile", profile_data, r.out)
            /\ UNCHANGED <<sessions, db_manager, store, encryption_key, clock, profiles, current_profile_id, issued>>

LoadProfile ==
    \E profile_id \in ProfileIds :
        /\ result' = Call("load_profile", profile_id,
                          StoreLoad(store, table, encryption_key, profile_id))
        /\ UNCHANGED <<sessions, db_manager, store, table, encryption_key, clock, profiles, current_profile_id, issued>>

DeleteProfile ==
    \E profile_id \in ProfileIds, commit_ok \in BOOLEAN :
        LET r == StoreDelete(store, table, profile_id, commit_ok)
        IN  /\ table' = r.table
            /\ result' = Call("delete_profile", profile_id, r.out)
            /\ UNCHANGED <<sessions, db_manager, store, encryption_key, clock, profiles, current_profile_id, issued>>

GetAllProfiles ==
    /\ result' = Call("get_all_profiles", None,
                      StoreGetAll(store, table, encryption_key))
    /\ UNCHANGED <<sessions, db_manager, store, table, encryption_key, clock, profiles, current_profile_id, issued>>

\* A new browser session on the same database file: session_state is empty,
\* so a fresh key is generated and a new store object is built around it.
NewSession ==
    /\ encryption_key < NumKeys
    /\ encryption_key' = encryption_key + 1
    /\ result' = Call("new_session", None, Returned(None))
    /\ UNCHANGED <<sessions, db_manager, store, table, clock, profiles, current_profile_id, issued>>

\* Time passes.
Tick ==
    /\ clock < MaxClock
    /\ clock' = clock + 1
    /\ result' = Call("tick", None, Returned(None))
    /\ UNCHANGED <<sessions, db_manager, store, table, encryption_key, profiles, current_profile_id, issued>>

\* The store's interface within one reading of the clock, across sessions.
Next ==
    \/ SaveProfile
    \/ LoadProfile
    \/ DeleteProfile
    \/ GetAllProfiles
    \/ NewSession

Spec == Init /\ [][Next]_vars

\* The store's interface within one session, as time passes.
NextClock ==
    \/ SaveProfile
    \/ LoadProfile
    \/ DeleteProfile
    \/ GetAllProfiles
    \/ Tick

SpecClock == Init /\ [][NextClock]_vars

(***************************************************************************)
(* app.py: the single-file application.  Its records live in the database  *)
(* behind a DatabaseHelper or, when that class cannot be imported, in      *)
(* st.session_state.profiles, a dict that keeps insertion order.           *)
(***************************************************************************)
FormNames == {"Ann", "Bob"}
FormDobs  == {0, NoDate}
FormLocations == {"", "High Street"}

app_profile_ids(ps) == {ps[i]["profile_id"] : i \in DOMAIN ps}

app_index(ps, profile_id) ==
    CHOOSE i \in DOMAIN ps : ps[i]["profile_id"] = profile_id

\* st.session_state.profiles[profile_data['profile_id']] = profile_data
app_setitem(ps, profile_data) ==
    IF profile_data["profile_id"] \in app_profile_ids(ps)
    THEN [ps EXCEPT ![app_index(ps, profile_data["profile_id"])] = profile_data]
    ELSE Append(ps, profile_data)

\* del st.session_state.profiles[profile_id]
app_delitem(ps, profile_id) ==
    SelectSeq(ps, LAMBDA d : d["profile_id"] # profile_id)

\* save_profile: what it returns or raises, the dict as it stores it, and
\* the storage it leaves.
app_save_profile(s, ps, t, key, profile_data, fresh_id, now, commit_ok) ==
    LET identified == IF "profile_id" \notin DOMAIN profile_data
                      THEN Put(Put(profile_data, "profile_id", fresh_id),
                               "created_date", now)
                      ELSE profile_data
        stamped    == Put(identified, "last_updated", now)
    IN  IF s = "DatabaseHelper"
        THEN LET r == DatabaseHelper_save_profile(t, key, stamped, now, commit_ok)
             IN  [ out |-> IF r.out.raised THEN r.out
                                           ELSE Returned(stamped["profile_id"]),
                   profiles |-> ps, table |-> r.table ]
        ELSE [ out |-> Returned(stamped["profile_id"]),
               profiles |-> app_setitem(ps, stamped), table |-> t ]

app_load_profile(s, ps, t, key, profile_id) ==
    IF s = "DatabaseHelper"
    THEN DatabaseHelper_load_profile(t, key, profile_id)
    ELSE IF profile_id \in app_profile_ids(ps)
         THEN Returned([found |-> TRUE, data |-> ps[app_index(ps, profile_id)]])
         ELSE Returned([found |-> FALSE])

app_delete_profile(s, ps, t, profile_id, commit_ok) ==
    IF s = "DatabaseHelper"
    THEN LET r == DatabaseHelper_delete_profile(t, profile_id, commit_ok)
         IN  [out |-> r.out, profiles |-> ps, table |-> r.table]
    ELSE [ out |-> Returned(profile_id \in app_profile_ids(ps)),
           profiles |-> app_delitem(ps, profile_id), table |-> t ]

\* main: the sidebar lists session_state.profiles by name; profile_map is
\* dict(zip(names, ids)), so of two records with one name the later wins.
profile_display(ps) == {ps[i]["name"] : i \in DOMAIN ps}

profile_map(ps) ==
    [ name \in profile_display(ps) |->
        LET last == CHOOSE i \in DOMAIN ps :
                        /\ ps[i]["name"] = name
                        /\ \A j \in DOMAIN ps : ps[j]["name"] = name => j <= i
        IN  ps[last]["profile_id"] ]

\* The record the select box shows after a rerun that began with
\* current_profile_id = current: its name if profile_map leads back to it,
\* else "Create New Profile", which clears current_profile_id.
sidebar(ps, current) ==
    IF \E name \in profile_display(ps) : profile_map(ps)[name] = current
    THEN current
    ELSE None

\* profile_form: the dict the Save Profile button builds.  The button is
\* disabled without consent, so gdpr_consent is True.
new_profile_data(name, dob, current, now) ==
    LET fields == [ name |-> name, dob |-> IsoText(dob),
                    age  |-> IF dob = NoDate THEN NoAge ELSE calculate_age(dob, now),
                    gdpr_consent |-> TRUE ]
    IN  IF current # None THEN Put(fields, "profile_id", current) ELSE fields

InitApp ==
    /\ store \in {"session_state", "DatabaseHelper"}
    /\ table = [p \in ProfileIds |-> NoRow]
    /\ encryption_key = 1
    /\ clock = 0
    /\ profiles = <<>>
    /\ current_profile_id = None
    /\ result = Call("init", None, Returned(None))
    /\ issued = 0
    /\ sessions = NoSessions
    /\ db_manager = None

\* The user picks an entry of the select box.
AppSelect ==
    \E name \in profile_display(profiles) \cup {"Create New Profile"} :
        /\ current_profile_id' = IF name = "Create New Profile"
                                 THEN None
                                 ELSE profile_map(profiles)[name]
        /\ result' = Call("select", name, Returned(None))
        /\ UNCHANGED <<sessions, db_manager, store, table, encryption_key, clock, profiles, issued>>

\* "Save Profile" on the Edit Profile page, and the rerun that follows.
AppProfileForm ==
    \E name \in FormNames, dob \in FormDobs, commit_ok \in BOOLEAN :
        LET data == new_profile_data(name, dob, current_profile_id, clock)
            r    == app_save_profile(store, profiles, table, encryption_key,
                                     data, issued + 1, clock, commit_ok)
        IN  /\ current_profile_id # None \/ issued < NumProfiles
            /\ issued' = IF current_profile_id = None THEN issued + 1 ELSE issued
            /\ profiles' = r.profiles
            /\ table' = r.table
            /\ current_profile_id' =
                   IF r.out.raised THEN current_profile_id
                                   ELSE sidebar(r.profiles, r.out.value)
            /\ result' = Call("profile_form", [name |-> name, dob |-> dob], r.out)
            /\ UNCHANGED <<sessions, db_manager, store, encryption_key, clock>>

\* "Update Missing Person Information", and the rerun that follows.
AppMissingPersonForm ==
    \E last_seen_location \in FormLocations, commit_ok \in BOOLEAN :
        LET loaded == app_load_profile(store, profiles, table, encryption_key,
                                       current_profile_id)
        IN  /\ current_profile_id # None
            /\ ~loaded.raised
            /\ loaded.value.found
            /\ LET data == Put(loaded.value.data, "last_seen_location",
                               last_seen_location)
                   r    == app_save_profile(store, profiles, table, encryption_key,
                                            data, issued + 1, clock, commit_ok)
               IN  /\ profiles' = r.profiles
                   /\ table' = r.table
                   /\ current_profile_id' =
                          IF r.out.raised THEN current_profile_id
                                          ELSE sidebar(r.profiles, r.out.value)
                   /\ result' = Call("missing_person_form", last_seen_location, r.out)
            /\ UNCHANGED <<sessions, db_manager, store, encryption_key, clock, issued>>

\* "Delete Current Profile" in the sidebar.
AppDelete ==
    \E commit_ok \in BOOLEAN :
        LET r == app_delete_profile(store, profiles, table, current_profile_id, commit_ok)
        IN  /\ current_profile_id # None
            /\ profiles' = r.profiles
            /\ table' = r.table
            /\ current_profile_id' = IF r.out.raised THEN current_profile_id ELSE None
            /\ result' = Call("delete", current_profile_id, r.out)
            /\ UNCHANGED <<sessions, db_manager, store, encryption_key, clock, issued>>

NextApp ==
    \/ AppSelect
    \/ AppProfileForm
    \/ AppMissingPersonForm
    \/ AppDelete
    \/ Tick

SpecApp == InitApp /\ [][NextApp]_vars

\* The records the application holds, by profile_id.
AppRecords ==
    IF store = "DatabaseHelper"
    THEN [id \in Stored(table) |-> JsonLoads(table[id].encrypted_data.text)]
    ELSE [id \in app_profile_ids(profiles) |-> profiles[app_index(profiles, id)]]

(***************************************************************************)
(* utils.py: the location resolver.  A location text is a sequence of      *)
(* tokens: words, blanks, brackets, commas, decimal numbers and the        *)
(* marker "Coordinates:" in either spelling.  Two number tokens side by    *)
(* side do not read as one number ("51.5-0.1"), as float() has it.         *)
(***************************************************************************)
MaxBodyLen == 4   \* tokens after the marker in the texts tried

MarkerTokens == {"Coordinates:", "COORDINATES:", "coordinates:"}
NumberTokens == {"51.5", "-0.1"}
BodyTokens   == {" ", ",", ")", "x", "coordinates:"} \cup NumberTokens

\* location_text None (a record without the field handed on as None)
NoneText == <<"None">>
NoCoordinates == <<"None", "None">>

Idle ==
    /\ store = "DatabaseManager"
    /\ table = [p \in ProfileIds |-> NoRow]
    /\ encryption_key = 1
    /\ clock = 0
    /\ profiles = <<>>
    /\ current_profile_id = None
    /\ issued = 0
    /\ sessions = NoSessions
    /\ db_manager = None

Lowest(S)  == CHOOSE i \in S : \A j \in S : i <= j
Highest(S) == CHOOSE i \in S : \A j \in S : j <= i

\* str.lower()
LowerToken(tok) ==
    CASE tok \in MarkerTokens -> "coordinates:"
      [] tok = "High St"      -> "high st"
      [] OTHER                -> tok
Lower(text) == [i \in DOMAIN text |-> LowerToken(text[i])]

\* str.strip()
Strip(text) ==
    LET solid == {i \in DOMAIN text : text[i] # " "}
    IN  IF solid = {} THEN <<>> ELSE SubSeq(text, Lowest(solid), Highest(solid))

\* "coordinates:" in location_text.lower()
HasMarker(text) == \E i \in DOMAIN text : Lower(text)[i] = "coordinates:"

\* location_text.lower().split("coordinates:")[0] and [1]
BeforeMarker(text) ==
    LET low   == Lower(text)
        first == Lowest({i \in DOMAIN low : low[i] = "coordinates:"})
    IN  SubSeq(low, 1, first - 1)

AfterMarker(text) ==
    LET low   == Lower(text)
        marks == {i \in DOMAIN low : low[i] = "coordinates:"}
        first == Lowest(marks)
        later == {i \in marks : i > first}
        stop  == IF later = {} THEN Len(low) + 1 ELSE Lowest(later)
    IN  SubSeq(low, first + 1, stop - 1)

\* float(s.strip()): the text must be one number
ParseFloat(text) ==
    LET s == Strip(text)
    IN  IF Len(s) = 1 /\ s[1] \in NumberTokens
        THEN Returned(s[1])
        ELSE Raised("ValueError")

\* The body of the try block of extract_coordinates.
ParseCoordinates(text) ==
    LET stripped   == Strip(AfterMarker(text))
        coords_part == IF stripped # <<>> /\ stripped[Len(stripped)] = ")"
                       THEN SubSeq(stripped, 1, Len(stripped) - 1)
                       ELSE stripped
        commas     == {i \in DOMAIN coords_part : coords_part[i] = ","}
    IN  IF Cardinality(commas) # 1
        THEN Raised("ValueError")      \* lat_str, lng_str = ... does not unpack
        ELSE LET c   == Lowest(commas)
                 lat == ParseFloat(SubSeq(coords_part, 1, c - 1))
                 lng == ParseFloat(SubSeq(coords_part, c + 1, Len(coords_part)))
             IN  IF lat.raised THEN lat
                 ELSE IF lng.raised THEN lng
                 ELSE Returned(<<lat.value, lng.value>>)

\* A faulty extraction: a parse failure is not caught.
extract_coordinates_Uncaught(location_text) ==
    IF location_text = NoneText \/ location_text = <<>>
    THEN Returned(NoCoordinates)
    ELSE IF HasMarker(location_text)
         THEN ParseCoordinates(location_text)
         ELSE Returned(NoCoordinates)

extract_coordinates(location_text) ==
    IF location_text = NoneText \/ location_text = <<>>
    THEN Returned(NoCoordinates)
    ELSE IF HasMarker(location_text)
         THEN LET parsed == ParseCoordinates(location_text)
              IN  IF parsed.raised THEN Returned(NoCoordinates) ELSE parsed
         ELSE Returned(NoCoordinates)

\* The geocoding collaborator as the resolver meets it: geopy is not
\* installed, or Nominatim finds the place, finds nothing, times out, or
\* fails in some other way.
GeocoderOutcomes == {"not_installed", "found", "nothing", "timeout", "error"}
GeocodedAt == <<"53.4", "-2.2">>

\* The query sent to Nominatim: the text before the marker, without the
\* opening bracket of the suffix; the whole text when there is no marker.
clean_location(location_text) ==
    IF HasMarker(location_text)
    THEN LET before == Strip(BeforeMarker(location_text))
         IN  IF before # <<>> /\ before[Len(before)] = "("
             THEN Strip(SubSeq(before, 1, Len(before) - 1))
             ELSE before
    ELSE location_text

\* The inner try block of geocode_location, before its except clauses.
geocode_attempt(location_text, geocoder) ==
    IF geocoder = "not_installed" THEN Raised("ImportError")
    ELSE IF location_text = NoneText THEN Raised("AttributeError")
    ELSE IF clean_location(location_text) = <<>> THEN Returned(NoCoordinates)
    ELSE CASE geocoder = "found"   -> Returned(GeocodedAt)
           [] geocoder = "nothing" -> Returned(NoCoordinates)
           [] geocoder = "timeout" -> Raised("GeocoderTimedOut")
           [] OTHER                -> Raised("Exception")

\* A faulty query: the text is sent as it came, suffix and all.
geocoder_query_WholeText(location_text, geocoder) ==
    IF extract_coordinates(location_text).value # NoCoordinates THEN NoneText
    ELSE IF geocoder = "not_installed" \/ location_text = NoneText THEN NoneText
    ELSE IF clean_location(location_text) = <<>> THEN NoneText
    ELSE location_text

\* What geolocator.geocode receives in geocode_location; NoneText when the
\* call is not reached.
geocoder_query(location_text, geocoder) ==
    IF extract_coordinates(location_text).value # NoCoordinates THEN NoneText
    ELSE IF geocoder = "not_installed" \/ location_text = NoneText THEN NoneText
    ELSE IF clean_location(location_text) = <<>> THEN NoneText
    ELSE clean_location(location_text)

\* A faulty resolver: only the geocoder's own timeout is caught.
geocode_location_TimeoutOnly(location_text, geocoder) ==
    LET extracted == extract_coordinates(location_text)
    IN  IF extracted.value # NoCoordinates
        THEN extracted
        ELSE LET attempt == geocode_attempt(location_text, geocoder)
             IN  IF attempt.raised /\ attempt.exc = "GeocoderTimedOut"
                 THEN Returned(NoCoordinates)
                 ELSE attempt

geocode_location(location_text, geocoder) ==
    LET extracted == extract_coordinates(location_text)
    IN  IF extracted.value # NoCoordinates
        THEN extracted
        ELSE LET attempt == geocode_attempt(location_text, geocoder)
             IN  IF attempt.raised THEN Returned(NoCoordinates) ELSE attempt

\* The location texts tried: an optional address, an optional marker, and
\* every body of at most MaxBodyLen tokens.
RECURSIVE Bodies(_)
Bodies(n) ==
    IF n = 0 THEN {<<>>}
    ELSE LET shorter == Bodies(n - 1)
         IN  shorter \cup {Append(b, tok) : b \in shorter, tok \in BodyTokens}

LocationTexts ==
    {NoneText} \cup
    { prefix \o marker \o body :
        prefix \in {<<>>, <<"High St", " ", "(">>},
        marker \in {<<>>, <<"Coordinates:">>},
        body   \in Bodies(MaxBodyLen) }

InitResolver ==
    /\ Idle
    /\ \E location_text \in LocationTexts :
           result = Call("location_text", location_text, Returned(NoCoordinates))

ExtractCoordinates ==
    /\ result.op = "location_text"
    /\ result' = Call("extract_coordinates", result.arg,
                      extract_coordinates(result.arg))
    /\ UNCHANGED <<sessions, db_manager, store, table, encryption_key, clock, profiles,
                   current_profile_id, issued>>

GeocodeLocation ==
    /\ result.op = "location_text"
    /\ \E geocoder \in GeocoderOutcomes :
           result' = Call("geocode_location",
                          [location_text |-> result.arg, geocoder |-> geocoder],
                          geocode_location(result.arg, geocoder))
    /\ UNCHANGED <<sessions, db_manager, store, table, encryption_key, clock, profiles,
                   current_profile_id, issued>>

NextResolver ==
    \/ ExtractCoordinates
    \/ GeocodeLocation

SpecResolver == InitResolver /\ [][NextResolver]_vars

(***************************************************************************)
(* pdf_generator.py and app.py: the document builders.  A text is a        *)
(* sequence of tokens (words, blanks, full stops); the empty string is     *)
(* <<>>.  A one-page profile is the story handed to doc.build, a poster    *)
(* is the sequence of its pages.                                           *)
(***************************************************************************)
\* generate_short_summary(text, max_words=15)
DefaultMaxWords == 15

Words(text) == SelectSeq(text, LAMBDA tok : tok # " ")

\* text.split('.')[0].strip()
FirstSentence(text) ==
    LET stops == {i \in DOMAIN text : text[i] = "."}
    IN  Strip(IF stops = {} THEN text ELSE SubSeq(text, 1, Lowest(stops) - 1))

generate_short_summary(text, max_words) ==
    IF text = <<>> \/ text = NoneText
    THEN <<>>
    ELSE LET first_sentence == FirstSentence(text)
             words          == Words(first_sentence)
         IN  IF Len(words) <= max_words
             THEN first_sentence
             ELSE SubSeq(words, 1, max_words) \o <<"...">>

\* Story elements of the one-page profile.
Paragraph(text)  == [kind |-> "Paragraph", text |-> text, rows |-> <<>>]
Heading(label)   == [kind |-> "Heading", text |-> <<label>>, rows |-> <<>>]
Spacer           == [kind |-> "Spacer", text |-> <<>>, rows |-> <<>>]
ReportLabImage(path) == [kind |-> "Image", text |-> path, rows |-> <<>>]
TableRow(label, value) == [label |-> label, value |-> value]
Table(rows)      == [kind |-> "Table", text |-> <<>>, rows |-> rows]

\* profile_image and os.path.exists(profile_image)
HasPhoto(profile_data, photo) ==
    /\ Get(profile_data, "profile_image", <<>>) # <<>>
    /\ photo # "absent"

\* A faulty section: nothing is rendered for a field without content.
Section_OmitsEmpty(label, profile_data, key) ==
    IF Get(profile_data, key, <<>>) = <<>>
    THEN <<>>
    ELSE <<Heading(label), Paragraph(Get(profile_data, key, <<>>))>>

\* A section of the profile: its heading and the field's text.
Section(label, profile_data, key) ==
    <<Heading(label), Paragraph(Get(profile_data, key, <<>>))>>

\* The story of the one-page profile after the photo.
ProfileStory(profile_data) ==
    <<Table(<<TableRow("Name", Get(profile_data, "name", <<>>)),
              TableRow("Date of Birth", Get(profile_data, "dob", <<>>)),
              TableRow("NHS Number", Get(profile_data, "nhs_number", <<>>)),
              TableRow("Emergency Contact",
                       Get(profile_data, "emergency_contact", <<>>))>>),
      Spacer,
      Heading("Important Information to Keep Me Safe"),
      Heading("Physical Description:"),
      Table(<<TableRow("Height", Get(profile_data, "height", <<>>)),
              TableRow("Build", Get(profile_data, "build", <<>>)),
              TableRow("Hair Color/Style", Get(profile_data, "hair", <<>>)),
              TableRow("Eye Color", Get(profile_data, "eyes", <<>>)),
              TableRow("Distinguishing Features",
                       Get(profile_data, "distinguishing_features", <<>>))>>),
      Spacer>>
    \o Section("What's Important To Me:", profile_data, "important_to_me")
    \o <<Spacer>>
    \o Section("How Best To Support Me:", profile_data, "how_to_support")
    \o <<Spacer>>
    \o Section("How I Communicate:", profile_data, "communication")
    \o <<Spacer>>
    \o Section("Medical Information:", profile_data, "medical_info")
    \o <<Spacer>>
    \o Section("Places I Might Go:", profile_data, "places_might_go")
    \o <<Spacer>>
    \o Section("Travel Patterns and Routines:", profile_data, "travel_routines")
    \o <<Spacer, Paragraph(<<"CONFIDENTIAL">>)>>

ProfileTitle(profile_data) ==
    <<[kind |-> "Title", text |-> Get(profile_data, "name", <<>>), rows |-> <<>>],
      Spacer>>

\* pdf_generator.create_profile_pdf: photo is the state of the image file
\* ("absent", "ok", or "unreadable": embedding it raises), build_ok whether
\* doc.build succeeds.
create_profile_pdf(profile_data, photo, build_ok) ==
    LET image == IF HasPhoto(profile_data, photo) /\ photo = "ok"
                 THEN <<ReportLabImage(profile_data["profile_image"]), Spacer>>
                 ELSE <<>>
        story == ProfileTitle(profile_data) \o image \o ProfileStory(profile_data)
    IN  IF build_ok THEN Returned(story) ELSE Raised("Exception")

\* app.create_profile_pdf: the same story, the photo embedded outside any
\* try block.
app_create_profile_pdf(profile_data, photo, build_ok) ==
    IF HasPhoto(profile_data, photo) /\ photo = "unreadable"
    THEN Raised("Exception")
    ELSE LET image == IF HasPhoto(profile_data, photo)
                      THEN <<ReportLabImage(profile_data["profile_image"]), Spacer>>
                      ELSE <<>>
             story == ProfileTitle(profile_data) \o image
                      \o ProfileStory(profile_data)
         IN  IF build_ok THEN Returned(story) ELSE Raised("Exception")

\* Pages of the poster: the lines written by multi_cell / cell, and the
\* image placed on the page ("none" when there is none).
Line(label, text) == [label |-> label, text |-> text]
Page(page, image, lines) == [page |-> page, image |-> image, lines |-> lines]

\* Page 1: photo, description, last seen.
MainPage(profile_data, photo) ==
    Page("main",
         IF HasPhoto(profile_data, photo) /\ photo = "ok" THEN "photo" ELSE "none",
         <<Line("Name", Get(profile_data, "name", <<>>)),
           Line("Age", Get(profile_data, "age", <<>>)),
           Line("Height", Get(profile_data, "height", <<>>)),
           Line("Build", Get(profile_data, "build", <<>>)),
           Line("Hair", Get(profile_data, "hair", <<>>)),
           Line("Eyes", Get(profile_data, "eyes", <<>>)),
           Line("Distinguishing features",
                Get(profile_data, "distinguishing_features", <<>>)),
           Line("Date and time",
                Get(profile_data, "last_seen_datetime", <<"Unknown">>)),
           Line("Location",
                Get(profile_data, "last_seen_location", <<"Unknown">>)),
           Line("Wearing",
                Get(profile_data, "last_seen_wearing", <<"Unknown">>))>>)

\* The map page once coordinates are known and the map is saved.
MapPage(location_text, coordinates, qr) ==
    Page("map",
         IF qr = "ok" THEN "qr" ELSE "none",
         <<Line("Last seen at", location_text),
           Line("Coordinates", <<coordinates[1], ",", coordinates[2]>>),
           Line("https://www.google.com/maps/search/?api=1&query=",
                <<coordinates[1], ",", coordinates[2]>>)>>
         \o IF qr = "not_installed"
            THEN <<Line("QR code generation not available", <<>>)>>
            ELSE <<>>)

\* A faulty map step: the page is added whatever the resolver answered.
MapPages_Unconditional(profile_data, folium, geocoder, qr) ==
    LET location_text == Get(profile_data, "last_seen_location", <<>>)
        coordinates   == geocode_location(location_text, geocoder).value
    IN  IF folium # "installed"
        THEN <<>>
        ELSE <<MapPage(location_text, coordinates, qr)>>

\* Page 2, the try block of create_missing_person_poster: folium is
\* "installed", "not_installed" (the import raises) or "fails" (building or
\* saving the map raises); qr is "ok", "not_installed" or "fails".
MapPages(profile_data, folium, geocoder, qr) ==
    LET location_text == Get(profile_data, "last_seen_location", <<>>)
    IN  IF folium = "not_installed"
        THEN <<>>
        ELSE \* lat, lng = geocode_location(location_text), called once
             CHOOSE pages \in
                 { IF coordinates = NoCoordinates
                   THEN <<>>
                   ELSE IF folium = "fails"
                   THEN <<>>
                   ELSE <<MapPage(location_text, coordinates, qr)>> :
                     coordinates \in
                         {geocode_location(location_text, geocoder).value} } :
                 TRUE

\* Page 3: important information, contact, reference.
InfoPage(profile_data) ==
    Page("info", "none",
         <<Line("Medical needs",
                Get(profile_data, "medical_info_short", <<"Unknown">>)),
           Line("Communication",
                Get(profile_data, "communication_short", <<"Unknown">>)),
           Line("Places they might go",
                Get(profile_data, "places_might_go_short", <<"Unknown">>)),
           Line("Reference",
                Get(profile_data, "reference_number", <<"Please quote name">>))>>)

\* pdf_generator.create_missing_person_poster; env describes the image
\* file, the optional libraries, the geocoder and poster.output.
create_missing_person_poster(profile_data, env) ==
    LET pages == <<MainPage(profile_data, env.photo)>>
                 \o MapPages(profile_data, env.folium, env.geocoder, env.qr)
                 \o <<InfoPage(profile_data)>>
    IN  IF env.output THEN Returned(pages) ELSE Raised("Exception")

\* The records and environments tried.
LongText == <<"Takes", "two", "tablets", "every", "morning", "and", "one",
              "every", "evening", "with", "food", "and", "water", "at",
              "home", "daily", ".", "Carries", "an", "inhaler">>
MarkedLocation == <<"High St", " ", "(", "Coordinates:", " ", "51.5", ",",
                    " ", "-0.1", ")">>

Entry(key, values) == {<<>>} \cup {key :> v : v \in values}

DocRecords ==
    { [name |-> <<"Ann">>, communication |-> <<"Uses", "Makaton", ".", "Signs">>,
       communication_short |-> <<"Makaton">>]
      @@ photo @@ seen @@ location @@ long @@ short @@ important :
        photo     \in Entry("profile_image", {<<"photo.jpg">>}),
        seen      \in Entry("last_seen_date", {<<"2025-01-01">>}),
        location  \in Entry("last_seen_location",
                            {<<"High St">>, MarkedLocation}),
        long      \in Entry("medical_info",
                            {LongText, <<"Epilepsy", ".", "Rescue", "medication">>}),
        short     \in Entry("medical_info_short", {<<>>, <<"Epilepsy">>}),
        important \in Entry("important_to_me", {<<>>, <<"Music">>}) }

PhotoStates == {"absent", "ok", "unreadable"}
PosterEnvs ==
    [photo : PhotoStates,
     folium : {"installed", "not_installed", "fails"},
     geocoder : GeocoderOutcomes,
     qr : {"ok", "not_installed", "fails"},
     output : BOOLEAN]

InitDocs ==
    /\ Idle
    /\ \E profile_data \in DocRecords :
           result = Call("profile_data", profile_data, Returned(None))

CreateProfilePdf ==
    /\ result.op = "profile_data"
    /\ \E photo \in PhotoStates, build_ok \in BOOLEAN :
           result' = Call("create_profile_pdf",
                          [profile_data |-> result.arg, photo |-> photo,
                           build_ok |-> build_ok],
                          create_profile_pdf(result.arg, photo, build_ok))
    /\ UNCHANGED <<sessions, db_manager, store, table, encryption_key, clock, profiles,
                   current_profile_id, issued>>

AppCreateProfilePdf ==
    /\ result.op = "profile_data"
    /\ \E photo \in PhotoStates, build_ok \in BOOLEAN :
           result' = Call("app.create_profile_pdf",
                          [profile_data |-> result.arg, photo |-> photo,
                           build_ok |-> build_ok],
                          app_create_profile_pdf(result.arg, photo, build_ok))
    /\ UNCHANGED <<sessions, db_manager, store, table, encryption_key, clock, profiles,
                   current_profile_id, issued>>

CreateMissingPersonPoster ==
    /\ result.op = "profile_data"
    /\ \E env \in PosterEnvs :
           result' = Call("create_missing_person_poster",
                          [profile_data |-> result.arg, env |-> env],
                          create_missing_person_poster(result.arg, env))
    /\ UNCHANGED <<sessions, db_manager, store, table, encryption_key, clock, profiles,
                   current_profile_id, issued>>

NextDocs ==
    \/ CreateProfilePdf
    \/ AppCreateProfilePdf
    \/ CreateMissingPersonPoster

SpecDocs == InitDocs /\ [][NextDocs]_vars

(***************************************************************************)
(* config.py, models.py: height and weight on the way to the store.        *)
(***************************************************************************)
HEIGHT_MIN_CM == 30
HEIGHT_MAX_CM == 250
WEIGHT_MIN_KG == 1
WEIGHT_MAX_KG == 250
HEIGHT_DEFAULT_CM == 170
WEIGHT_DEFAULT_KG == 70

\* Profile.from_dict(data): the attributes copied from the dict, and
\* height_cm / weight_kg through int().
from_dict(data, now) ==
    [height_cm |-> Get(data, "height_cm", HEIGHT_DEFAULT_CM),
     weight_kg |-> Get(data, "weight_kg", WEIGHT_DEFAULT_KG)]
    @@ NewProfile(Get(data, "profile_id", None), Get(data, "name", ""),
                  NoDate, Get(data, "gdpr_consent", FALSE), now)

\* Profile.to_dict() with the two measures.
ProfileToDict(p, now) ==
    [height_cm |-> p.height_cm, weight_kg |-> p.weight_kg] @@ to_dict(p, now)

\* The measures tried: the limits of config.py and their outer neighbours.
Heights == {HEIGHT_MIN_CM - 1, HEIGHT_MIN_CM, HEIGHT_MAX_CM, HEIGHT_MAX_CM + 1}
Weights == {WEIGHT_MIN_KG - 1, WEIGHT_MIN_KG, WEIGHT_MAX_KG, WEIGHT_MAX_KG + 1}

MeasuredDicts ==
    { [profile_id |-> id, name |-> "Ann", gdpr_consent |-> TRUE,
       height_cm |-> h, weight_kg |-> w] :
          id \in ProfileIds, h \in Heights, w \in Weights }

InitMeasures ==
    /\ store \in StoreClasses
    /\ table = [p \in ProfileIds |-> NoRow]
    /\ encryption_key = 1
    /\ clock = 0
    /\ profiles = <<>>
    /\ current_profile_id = None
    /\ issued = 0
    /\ sessions = NoSessions
    /\ db_manager = None
    /\ \E data \in MeasuredDicts : result = Call("data", data, Returned(None))

\* save_profile(Profile.from_dict(data).to_dict())
NormalizeAndSave ==
    /\ result.op = "data"
    /\ \E commit_ok \in BOOLEAN :
           LET profile_data == ProfileToDict(from_dict(result.arg, clock), clock)
               r == StoreSave(store, table, encryption_key, profile_data,
                              clock, commit_ok)
           IN  /\ table' = r.table
               /\ result' = Call("from_dict.save_profile", result.arg, r.out)
    /\ UNCHANGED <<sessions, db_manager, store, encryption_key, clock, profiles, current_profile_id,
                   issued>>

\* save_profile(data)
SaveMeasured ==
    /\ result.op = "data"
    /\ \E commit_ok \in BOOLEAN :
           LET r == StoreSave(store, table, encryption_key, result.arg,
                              clock, commit_ok)
           IN  /\ table' = r.table
               /\ result' = Call("save_profile", result.arg, r.out)
    /\ UNCHANGED <<sessions, db_manager, store, encryption_key, clock, profiles, current_profile_id,
                   issued>>

LoadMeasured ==
    /\ result.op \in {"save_profile", "from_dict.save_profile"}
    /\ result' = Call("load_profile", result.arg,
                      StoreLoad(store, table, encryption_key,
                                result.arg.profile_id))
    /\ UNCHANGED <<sessions, db_manager, store, table, encryption_key, clock, profiles,
                   current_profile_id, issued>>

NextMeasures ==
    \/ NormalizeAndSave
    \/ SaveMeasured
    \/ LoadMeasured

SpecMeasures == InitMeasures /\ [][NextMeasures]_vars

(***************************************************************************)
(* utils.py: sanitize_filename.  A name is a sequence of characters.       *)
(***************************************************************************)
MaxNameLen == 3

\* The characters tried: a letter, a digit, a letter outside ASCII, the two
\* characters kept as they are, a blank, and two characters of paths.
Chars == {"a", "7", "é", "-", "_", " ", "/", "."}

\* str.isalnum(), which Python decides by Unicode category
isalnum(c) == c \in {"a", "7", "é"}

\* name.replace(' ', '_')
ReplaceBlanks(name) == [i \in DOMAIN name |-> IF name[i] = " " THEN "_" ELSE name[i]]

\* A faulty sanitizer: a character that is not allowed is dropped.
sanitize_filename_Drops(name) ==
    SelectSeq(ReplaceBlanks(name), LAMBDA c : isalnum(c) \/ c \in {"-", "_"})

sanitize_filename(name) ==
    LET replaced == ReplaceBlanks(name)
    IN  [i \in DOMAIN replaced |->
            IF isalnum(replaced[i]) \/ replaced[i] \in {"-", "_"}
            THEN replaced[i]
            ELSE "_"]

RECURSIVE Names(_)
Names(n) ==
    IF n = 0 THEN {<<>>}
    ELSE LET shorter == Names(n - 1)
         IN  shorter \cup {Append(s, c) : s \in shorter, c \in Chars}

InitSanitize ==
    /\ Idle
    /\ \E name \in Names(MaxNameLen) : result = Call("name", name, Returned(<<>>))

SanitizeFilename ==
    /\ result.op = "name"
    /\ result' = Call("sanitize_filename", result.arg,
                      Returned(sanitize_filename(result.arg)))
    /\ UNCHANGED <<sessions, db_manager, store, table, encryption_key, clock, profiles,
                   current_profile_id, issued>>

\* sanitize_filename applied to what it returned
SanitizeAgain ==
    /\ result.op = "sanitize_filename"
    /\ result' = Call("sanitize_filename.again", result.out.value,
                      Returned(sanitize_filename(result.out.value)))
    /\ UNCHANGED <<sessions, db_manager, store, table, encryption_key, clock, profiles,
                   current_profile_id, issued>>

NextSanitize ==
    \/ SanitizeFilename
    \/ SanitizeAgain

SpecSanitize == InitSanitize /\ [][NextSanitize]_vars

(***************************************************************************)
(* utils.py format_height, models.py Profile.height.  Lengths are counted  *)
(* in hundredths of a centimetre, so that 30.48 and 2.54 are the integers  *)
(* 3048 and 254 and the quotients of the code are exact.                   *)
(***************************************************************************)
CmPerFoot == 3048
CmPerInch == 254

\* round(num / den): to the nearest integer, a half to the even neighbour
Round(num, den) ==
    LET q == num \div den
        r == num % den
    IN  IF 2 * r > den THEN q + 1
        ELSE IF 2 * r < den THEN q
        ELSE IF q % 2 = 0 THEN q ELSE q + 1

\* The text "{height_cm} cm ({feet}' {inches}\")" by its three numbers.
HeightText(height_cm, feet, inches) ==
    [height_cm |-> height_cm, feet |-> feet, inches |-> inches]

\* A faulty format: twelve rounded inches are left as they are.
format_height_NoRollover(height_cm) ==
    HeightText(height_cm, (100 * height_cm) \div CmPerFoot,
               Round((100 * height_cm) % CmPerFoot, CmPerInch))

format_height(height_cm) ==
    LET feet   == (100 * height_cm) \div CmPerFoot
        inches == Round((100 * height_cm) % CmPerFoot, CmPerInch)
    IN  IF inches = 12
        THEN HeightText(height_cm, feet + 1, 0)
        ELSE HeightText(height_cm, feet, inches)

\* Profile.height: the same computation on self.height_cm
Profile_height(p) ==
    LET feet   == (100 * p.height_cm) \div CmPerFoot
        inches == Round((100 * p.height_cm) % CmPerFoot, CmPerInch)
    IN  IF inches = 12
        THEN HeightText(p.height_cm, feet + 1, 0)
        ELSE HeightText(p.height_cm, feet, inches)

InitHeight ==
    /\ Idle
    /\ \E height_cm \in HEIGHT_MIN_CM..HEIGHT_MAX_CM :
           result = Call("height_cm", height_cm, Returned(None))

FormatHeight ==
    /\ result.op = "height_cm"
    /\ result' = Call("format_height", result.arg,
                      Returned(format_height(result.arg)))
    /\ UNCHANGED <<sessions, db_manager, store, table, encryption_key, clock, profiles,
                   current_profile_id, issued>>

ProfileHeight ==
    /\ result.op = "height_cm"
    /\ result' = Call("Profile.height", result.arg,
                      Returned(Profile_height(
                          from_dict([height_cm |-> result.arg], clock))))
    /\ UNCHANGED <<sessions, db_manager, store, table, encryption_key, clock, profiles,
                   current_profile_id, issued>>

NextHeight ==
    \/ FormatHeight
    \/ ProfileHeight

SpecHeight == InitHeight /\ [][NextHeight]_vars

(***************************************************************************)
(* database.py: save_profile of two callers on one database.  Each call    *)
(* has its own SQLAlchemy session; between its query and its commit the    *)
(* other caller may run.  The table's primary key is profile_id.           *)
(***************************************************************************)
RacedId == 1

\* The dicts the callers save: one profile_id, different names.
RaceDicts ==
    { to_dict(NewProfile(RacedId, name, NoDate, TRUE, 0), 0) : name \in FormNames }

\* session.commit() of save_profile: the UPDATE of the row the query found,
\* or the INSERT of a new row, which the primary key rejects when a row
\* with this profile_id has been committed since the query.
Flush(t, existing_profile, profile_id, encrypted_data, now) ==
    IF existing_profile
    THEN [out   |-> Returned(profile_id),
          table |-> [t EXCEPT ![profile_id] =
                        Row(encrypted_data, t[profile_id].created_date, now)]]
    ELSE IF t[profile_id].present
    THEN [out |-> Raised("IntegrityError"), table |-> t]
    ELSE [out   |-> Returned(profile_id),
          table |-> [t EXCEPT ![profile_id] = Row(encrypted_data, now, now)]]

InitRace ==
    /\ store = "DatabaseManager"
    /\ table \in { [p \in ProfileIds |-> NoRow],
                   [p \in ProfileIds |->
                       IF p = RacedId
                       THEN Row(encrypt_data(1, to_dict(NewProfile(RacedId, "Ann",
                                    NoDate, TRUE, 0), 0)).value, 0, 0)
                       ELSE NoRow] }
    /\ encryption_key = 1
    /\ clock = 0
    /\ profiles = <<>>
    /\ current_profile_id = None
    /\ issued = 0
    /\ sessions = NoSessions
    /\ db_manager = None
    /\ result = Call("init", None, Returned(None))

\* save_profile up to and including the query for the existing row.
RaceQuery(c) ==
    /\ sessions[c].pc = "idle"
    /\ \E profile_data \in RaceDicts :
           /\ sessions' = [sessions EXCEPT ![c] =
                  [pc |-> "queried", profile_data |-> profile_data,
                   existing_profile |->
                       QueryFirst(table, profile_data.profile_id).present]]
           /\ result' = Call("query", [caller |-> c, profile_data |-> profile_data],
                             Returned(None))
    /\ UNCHANGED <<store, table, encryption_key, clock, profiles,
                   current_profile_id, issued, db_manager>>

\* The rest of save_profile: the write, the commit, and the return or the
\* rollback and re-raise.
RaceCommit(c) ==
    /\ sessions[c].pc = "queried"
    /\ LET profile_data == sessions[c].profile_data
           r == Flush(table, sessions[c].existing_profile, profile_data.profile_id,
                      encrypt_data(encryption_key, profile_data).value, clock)
       IN  /\ table' = r.table
           /\ result' = Call("save_profile.commit",
                             [caller |-> c, profile_data |-> profile_data], r.out)
    /\ sessions' = [sessions EXCEPT ![c] = IdleSession]
    /\ UNCHANGED <<store, encryption_key, clock, profiles, current_profile_id,
                   issued, db_manager>>

NextRace ==
    \/ \E c \in Callers : RaceQuery(c)
    \/ \E c \in Callers : RaceCommit(c)
    \/ Tick

SpecRace == InitRace /\ [][NextRace]_vars

(***************************************************************************)
(* database.py: get_database_manager.  st.session_state holds the          *)
(* session's encryption_key and its db_manager, both absent (None) in a    *)
(* new session; the table is the database behind DATABASE_URL.             *)
(***************************************************************************)
\* st.session_state without a db_manager.
NoManager == [database_url |-> "", encryption_key |-> None]

\* The keys some row, the session or its manager holds.
KeysInUse ==
    {table[p].encrypted_data.key : p \in Stored(table)}
        \cup ({encryption_key} \ {None})
        \cup (IF db_manager = NoManager THEN {} ELSE {db_manager.encryption_key})

\* Fernet.generate_key(): a key nothing holds yet.
GenerateKey(used) == Lowest((1..(NumKeys + 1)) \ used)

\* DatabaseManager(database_url, encryption_key): the attributes __init__
\* sets; the key is generated when none is passed.
DatabaseManager(database_url, key, used) ==
    [database_url   |-> database_url,
     encryption_key |-> IF key = None THEN GenerateKey(used) ELSE key]

\* The except branch: DatabaseManager(database_url="sqlite:///:memory:")
Fallback(session_key, used) ==
    DatabaseManager("sqlite:///:memory:", None, used)

InitManager ==
    /\ store = "DatabaseManager"
    /\ table = [p \in ProfileIds |-> NoRow]
    /\ encryption_key = None
    /\ clock = 0
    /\ profiles = <<>>
    /\ current_profile_id = None
    /\ issued = 0
    /\ sessions = NoSessions
    /\ db_manager = NoManager
    /\ result = Call("init", None, Returned(None))

\* get_database_manager(); initialize_ok says whether _initialize_database
\* succeeds on DATABASE_URL.
GetDatabaseManager ==
    \E initialize_ok \in BOOLEAN :
        /\ IF db_manager # NoManager
           THEN UNCHANGED <<encryption_key, db_manager>>
           ELSE LET session_key == IF encryption_key = None
                                   THEN GenerateKey(KeysInUse)
                                   ELSE encryption_key
                    used        == KeysInUse \cup {session_key}
                IN  /\ Cardinality(used) < NumKeys
                    /\ encryption_key' = session_key
                    /\ db_manager' =
                           IF initialize_ok
                           THEN DatabaseManager("DATABASE_URL", session_key, used)
                           ELSE Fallback(session_key, used)
        /\ result' = Call("get_database_manager", initialize_ok,
                          Returned(db_manager'))
        /\ UNCHANGED <<store, table, clock, profiles, current_profile_id,
                       issued, sessions>>

\* get_database_manager().save_profile(profile_data) on the database file.
ManagerSaveProfile ==
    /\ db_manager # NoManager
    /\ db_manager.database_url = "DATABASE_URL"
    /\ \E profile_data \in FreshDicts(clock), commit_ok \in BOOLEAN :
           LET r == DatabaseManager_save_profile(table, db_manager.encryption_key,
                                                 profile_data, clock, commit_ok)
           IN  /\ table' = r.table
               /\ result' = Call("save_profile", profile_data, r.out)
    /\ UNCHANGED <<store, encryption_key, clock, profiles, current_profile_id,
                   issued, sessions, db_manager>>

\* The browser session ends and another begins: st.session_state is empty.
SessionEnds ==
    /\ db_manager # NoManager
    /\ encryption_key' = None
    /\ db_manager' = NoManager
    /\ result' = Call("new_session", None, Returned(None))
    /\ UNCHANGED <<store, table, clock, profiles, current_profile_id, issued,
                   sessions>>

NextManager ==
    \/ GetDatabaseManager
    \/ ManagerSaveProfile
    \/ SessionEnds
    \/ Tick

SpecManager == InitManager /\ [][NextManager]_vars

(***************************************************************************)
(* app.py: the Edit Profile page and the missing-person page with the      *)
(* fields they write, for one record from its creation on.                 *)
(***************************************************************************)
MaxImages == 2   \* additional photos one record collects

BUILD_OPTIONS      == <<"Slim", "Average", "Athletic", "Heavy", "Other">>
HAIR_COLOR_OPTIONS == <<"Black", "Brown", "Blonde", "Red", "Grey", "White", "Other">>
EYE_COLOR_OPTIONS  == <<"Brown", "Blue", "Green", "Hazel", "Grey", "Other">>

\* A select box the user leaves as it is rendered.
Untouched == [option |-> "", text |-> ""]
Pick(option, text) == [option |-> option, text |-> text]

BuildInputs == {Untouched, Pick("Average", ""), Pick("Other", "Stocky")}
HairInputs  == {Untouched, Pick("Other", "Auburn")}
EyeInputs   == {Untouched, Pick("Other", "Amber")}

\* st.selectbox(options=options, index=options.index(stored) if stored in
\* options else 0): the option shown when the page is rendered.
Shown(options, profile_data, key) ==
    IF /\ key \in DOMAIN profile_data
       /\ \E i \in DOMAIN options : options[i] = profile_data[key]
    THEN profile_data[key]
    ELSE options[1]

\* The value the form holds for a select box and its "Please specify" text
\* input, whose default is profile_data.get(other_key, '').
Selected(options, profile_data, key, other_key, input) ==
    LET option == IF input = Untouched THEN Shown(options, profile_data, key)
                                       ELSE input.option
        text   == IF input = Untouched THEN Get(profile_data, other_key, "")
                                       ELSE input.text
    IN  IF option = "Other" THEN text ELSE option

\* profile_form: new_profile_data with the appearance fields; hair_style is
\* left empty, so hair is hair_color.  No image is uploaded or stored.
appearance_profile_data(name, build, hair_color, eye_color, current, now) ==
    new_profile_data(name, NoDate, current, now) @@
        [ build |-> build, hair |-> hair_color, hair_color |-> hair_color,
          eyes |-> eye_color, eye_color |-> eye_color ]

\* The missing-episode fields as the missing-person page writes them.
EpisodeKeys ==
    {"last_seen_date", "last_seen_time", "last_seen_location",
     "last_seen_wearing", "reference_number", "medical_info_short",
     "communication_short", "places_might_go_short"}

EpisodeInputs(now) ==
    { [ last_seen_date        |-> IsoText(now),
        last_seen_time        |-> "09:30",
        last_seen_datetime    |-> <<now, "09:30">>,
        last_seen_location    |-> last_seen_location,
        last_seen_wearing     |-> "red coat",
        reference_number      |-> reference_number,
        medical_info_short    |-> "epilepsy",
        communication_short   |-> "uses Makaton",
        places_might_go_short |-> "the park" ] :
          last_seen_location \in FormLocations \ {""},
          reference_number \in {"", "REF1"} }

\* save_uploaded_image(photo, profile_id, 'additional') for the n-th photo
\* of the record: a path no other photo has.
ImagePath(profile_id, n) == [profile_id |-> profile_id, image_type |-> "additional", n |-> n]

\* missing_person_form: profile_data after the button's updates.
episode_profile_data(profile_data, episode, photos) ==
    LET updated == Update(profile_data, episode)
        paths   == Get(profile_data, "additional_images", <<>>)
        added   == [i \in 1..photos |-> ImagePath(profile_data["profile_id"], Len(paths) + i)]
    IN  IF photos > 0 THEN Put(updated, "additional_images", paths \o added)
                      ELSE updated

InitForms ==
    /\ InitApp

\* "Save Profile" on the Edit Profile page.
FormsProfileForm ==
    \E name \in {"Ann"}, build_input \in BuildInputs, hair_input \in HairInputs,
       eye_input \in EyeInputs :
        LET loaded == IF current_profile_id = None
                      THEN Returned([found |-> FALSE])
                      ELSE app_load_profile(store, profiles, table, encryption_key,
                                            current_profile_id)
            profile_data == IF ~loaded.raised /\ loaded.value.found
                            THEN loaded.value.data ELSE [x \in {} |-> ""]
            data == appearance_profile_data(name,
                        Selected(BUILD_OPTIONS, profile_data, "build", "build_other", build_input),
                        Selected(HAIR_COLOR_OPTIONS, profile_data, "hair_color", "hair_color_other", hair_input),
                        Selected(EYE_COLOR_OPTIONS, profile_data, "eye_color", "eye_color_other", eye_input),
                        current_profile_id, clock)
            r    == app_save_profile(store, profiles, table, encryption_key,
                                     data, issued + 1, clock, TRUE)
        IN  /\ ~loaded.raised
            /\ current_profile_id # None \/ issued < NumProfiles
            /\ issued' = IF current_profile_id = None THEN issued + 1 ELSE issued
            /\ profiles' = r.profiles
            /\ table' = r.table
            /\ current_profile_id' = IF r.out.raised THEN current_profile_id
                                                     ELSE r.out.value
            /\ result' = Call("profile_form",
                              [build |-> build_input, hair_color |-> hair_input,
                               eye_color |-> eye_input, before |-> profile_data],
                              r.out)
            /\ UNCHANGED <<sessions, db_manager, store, encryption_key, clock>>

\* "Update Missing Person Information" on the missing-person page.
FormsMissingPersonForm ==
    \E episode \in EpisodeInputs(clock), photos \in 0..1 :
        LET loaded == app_load_profile(store, profiles, table, encryption_key,
                                       current_profile_id)
        IN  /\ current_profile_id # None
            /\ ~loaded.raised
            /\ loaded.value.found
            /\ Len(Get(loaded.value.data, "additional_images", <<>>)) + photos <= MaxImages
            /\ LET data == episode_profile_data(loaded.value.data, episode, photos)
                   r    == app_save_profile(store, profiles, table, encryption_key,
                                            data, issued + 1, clock, TRUE)
               IN  /\ profiles' = r.profiles
                   /\ table' = r.table
                   /\ current_profile_id' = IF r.out.raised THEN current_profile_id
                                                            ELSE r.out.value
                   /\ result' = Call("missing_person_form",
                                     [episode |-> episode, photos |-> photos,
                                      before |-> loaded.value.data],
                                     r.out)
            /\ UNCHANGED <<sessions, db_manager, store, encryption_key, clock, issued>>

NextForms ==
    \/ FormsProfileForm
    \/ FormsMissingPersonForm

SpecForms == InitForms /\ [][NextForms]_vars

(***************************************************************************)
(* ui package: render_sidebar, render_profile_form and                     *)
(* render_missing_person_form, run by one session whose manager reads the  *)
(* database behind DATABASE_URL.  Location texts are token sequences as in *)
(* the location resolver.                                                  *)
(***************************************************************************)
MaxSuffixes == 2   \* coordinate suffixes one location text collects

UiNames == {"Ann", "Create New Profile"}
UiCoordinates == { <<"51.5", "-0.1">>, <<"-0.1", "51.5">> }

\* The fields of the Profile dataclass.
ProfileAttributes ==
    {"name", "dob", "age", "nhs_number", "emergency_contact", "height_cm",
     "weight_kg", "build", "hair_color", "hair_style", "eye_color",
     "distinguishing_features", "important_to_me", "how_to_support",
     "communication", "medical_info", "places_might_go", "travel_routines",
     "last_seen_date", "last_seen_time", "last_seen_location",
     "last_seen_wearing", "reference_number", "medical_info_short",
     "communication_short", "places_might_go_short", "profile_image",
     "additional_images", "gdpr_consent", "profile_id", "created_date",
     "last_updated"}

\* The keyword arguments render_profile_form passes to Profile(...).
FormKeywords ==
    {"name", "dob", "age", "nhs_number", "emergency_contact_name",
     "emergency_contact_relationship", "emergency_contact_mobile",
     "emergency_contact_email", "emergency_contact", "height_cm", "weight_kg",
     "build", "hair_color", "hair_style", "eye_color",
     "distinguishing_features", "important_to_me", "how_to_support",
     "communication", "medical_info", "places_might_go", "travel_routines",
     "gdpr_consent"}

\* Profile(**keywords): the generated __init__ raises TypeError on a
\* keyword that is no field.
Profile_init(keywords, profile) ==
    IF keywords \subseteq ProfileAttributes THEN Returned(profile)
                                            ELSE Raised("TypeError")

\* A record as Profile(...).to_dict() stores it, nobody missing yet.
UiRecord(profile_id, name, now) ==
    to_dict(NewProfile(profile_id, name, NoDate, TRUE, now), now) @@
        [ last_seen_location |-> <<>>, additional_images |-> <<>> ]

UiRows ==
    { [p \in ProfileIds |->
          IF names[p] = "" THEN NoRow
          ELSE Row(encrypt_data(1, UiRecord(p, names[p], 0)).value, 0, 0)] :
          names \in [ProfileIds -> UiNames \cup {""}] }

InitUi ==
    /\ store = "DatabaseManager"
    /\ table \in UiRows
    /\ encryption_key = 1
    /\ db_manager = DatabaseManager("DATABASE_URL", 1, {})
    /\ clock = 0
    /\ profiles = <<>>
    /\ current_profile_id = None
    /\ issued = 0
    /\ sessions = NoSessions
    /\ result = Call("init", None, Returned(""))

\* list(all_profiles.keys()): the rows in the order the query yields them.
RECURSIVE Ascending(_)
Ascending(S) ==
    IF S = {} THEN <<>> ELSE <<Lowest(S)>> \o Ascending(S \ {Lowest(S)})

\* profile_options; the first entry, the string "Create New Profile" that
\* no profile_id equals, is None here.
profile_options(all_profiles) == <<None>> \o Ascending(DOMAIN all_profiles)

profile_labels(all_profiles) ==
    LET ids == Ascending(DOMAIN all_profiles)
    IN  <<"Create New Profile">> \o [i \in DOMAIN ids |-> all_profiles[ids[i]]["name"]]

\* dict(zip(profile_labels, profile_options)): a label met again keeps its
\* place and takes the later value.
sidebar_profile_map(all_profiles) ==
    LET labels  == profile_labels(all_profiles)
        options == profile_options(all_profiles)
    IN  [ label \in {labels[i] : i \in DOMAIN labels} |->
              options[Highest({i \in DOMAIN labels : labels[i] = label})] ]

\* profile_map.items(): the labels in the order of their first occurrence.
sidebar_items(all_profiles) ==
    LET labels == profile_labels(all_profiles)
        firsts == {i \in DOMAIN labels : \A j \in 1..(i - 1) : labels[j] # labels[i]}
        order  == Ascending(firsts)
    IN  [i \in DOMAIN order |-> labels[order[i]]]

\* current_index, counted from 1.
current_index(all_profiles, current) ==
    LET items == sidebar_items(all_profiles)
        hits  == {i \in DOMAIN items : sidebar_profile_map(all_profiles)[items[i]] = current}
    IN  IF current # None /\ hits # {} THEN Lowest(hits) ELSE 1

\* The entry of the select box that is selected: the one the user chooses,
\* or the one at current_index when the user chooses none (entry = 0).
selected_entry(all_profiles, current, entry) ==
    IF entry = 0 THEN current_index(all_profiles, current) ELSE entry

\* render_sidebar up to the navigation options.
UiSidebar ==
    \E entry \in 0..(NumProfiles + 1) :
        LET all_profiles == DatabaseManager_get_all_profiles(table, db_manager.encryption_key).value
            labels       == profile_labels(all_profiles)
            selected     == selected_entry(all_profiles, current_profile_id, entry)
        IN  /\ entry <= Len(labels)
            /\ current_profile_id' = sidebar_profile_map(all_profiles)[labels[selected]]
            /\ result' = Call("render_sidebar",
                              [entry |-> entry, current |-> current_profile_id,
                               selected |-> selected],
                              Returned("selected"))
            /\ UNCHANGED <<sessions, db_manager, store, table, encryption_key, clock,
                           profiles, issued>>

\* "Delete Current Profile" in the sidebar.
UiDelete ==
    \E commit_ok \in BOOLEAN :
        LET r == DatabaseManager_delete_profile(table, current_profile_id, commit_ok)
        IN  /\ current_profile_id # None
            /\ table' = r.table
            /\ current_profile_id' = IF r.out.value THEN None ELSE current_profile_id
            /\ result' = Call("delete_profile", current_profile_id,
                              IF r.out.value THEN Returned("Profile deleted")
                                             ELSE Returned("Failed to delete profile"))
            /\ UNCHANGED <<sessions, db_manager, store, encryption_key, clock,
                           profiles, issued>>

\* "Save Profile" in render_profile_form.  An id for a new Profile comes
\* from uuid4: one that no row has.
UiProfileForm ==
    \E name \in {"", "Ann"}, gdpr_consent \in BOOLEAN, commit_ok \in BOOLEAN :
        /\ LET loaded == IF current_profile_id = None
                         THEN [found |-> FALSE]
                         ELSE DatabaseManager_load_profile(table, db_manager.encryption_key,
                                                           current_profile_id).value
               input  == [name |-> name, gdpr_consent |-> gdpr_consent,
                          current |-> current_profile_id]
               fresh  == IF current_profile_id # None THEN current_profile_id
                         ELSE IF ProfileIds \ Stored(table) = {} THEN None
                         ELSE Lowest(ProfileIds \ Stored(table))
               new_profile == Profile_init(FormKeywords,
                                  NewProfile(fresh, name, NoDate, gdpr_consent, clock))
           IN  IF current_profile_id # None /\ ~loaded.found
               THEN /\ current_profile_id' = None
                    /\ result' = Call("render_profile_form", input,
                                      Returned("Failed to load profile"))
                    /\ UNCHANGED table
               ELSE IF name = "" \/ ~gdpr_consent
               THEN /\ result' = Call("render_profile_form", input,
                                      Returned("required fields"))
                    /\ UNCHANGED <<table, current_profile_id>>
               ELSE IF new_profile.raised
               THEN /\ result' = Call("render_profile_form", input,
                                      Returned("Error saving profile"))
                    /\ UNCHANGED <<table, current_profile_id>>
               ELSE LET r == DatabaseManager_save_profile(table, db_manager.encryption_key,
                                 to_dict(new_profile.value, clock) @@
                                     [ last_seen_location |-> <<>>,
                                       additional_images |-> <<>> ],
                                 clock, commit_ok)
                    IN  /\ table' = r.table
                        /\ current_profile_id' = IF r.out.raised THEN current_profile_id
                                                                 ELSE r.out.value
                        /\ result' = Call("render_profile_form", input,
                                          IF r.out.raised
                                          THEN Returned("Error saving profile")
                                          ELSE Returned("saved"))
        /\ UNCHANGED <<sessions, db_manager, store, encryption_key, clock,
                       profiles, issued>>

\* f" (Coordinates: {lat:.6f}, {lng:.6f})" and f"Coordinates: ..."
CoordinateSuffix(loc) == <<" ", "(", "Coordinates:", " ", loc[1], ",", " ", loc[2], ")">>
CoordinateText(loc)   == <<"Coordinates:", " ", loc[1], ",", " ", loc[2]>>

\* The location the form holds: the text input's value with the browser's
\* coordinates appended when there are any.
located(last_seen_location, loc) ==
    IF loc = NoCoordinates THEN last_seen_location
    ELSE IF last_seen_location # <<>>
         THEN last_seen_location \o CoordinateSuffix(loc)
         ELSE CoordinateText(loc)

Markers(text) == Cardinality({i \in DOMAIN text : text[i] \in MarkerTokens})

\* "Update Missing Person Information" in render_missing_person_form; typed
\* is what the user types over the pre-filled location, NoneText for
\* nothing.  No photo is uploaded.
UiMissingPersonForm ==
    \E typed \in {NoneText, <<"High St">>}, loc \in UiCoordinates \cup {NoCoordinates},
       commit_ok \in BOOLEAN :
        /\ LET loaded    == DatabaseManager_load_profile(table, db_manager.encryption_key,
                                                         current_profile_id).value
               prefilled == Get(loaded.data, "last_seen_location", <<>>)
               last_seen_location ==
                   located(IF typed = NoneText THEN prefilled ELSE typed, loc)
               input     == [typed |-> typed, loc |-> loc, before |-> prefilled]
               episode   == CHOOSE e \in EpisodeInputs(clock) : e.reference_number = ""
           IN  /\ current_profile_id # None
               /\ IF ~loaded.found
                  THEN /\ current_profile_id' = None
                       /\ result' = Call("render_missing_person_form", input,
                                         Returned("Failed to load profile"))
                       /\ UNCHANGED table
                  ELSE IF last_seen_location = <<>>
                  THEN /\ result' = Call("render_missing_person_form", input,
                                         Returned("required fields"))
                       /\ UNCHANGED <<table, current_profile_id>>
                  ELSE LET profile_data ==
                               Put(Update(loaded.data, episode),
                                   "last_seen_location", last_seen_location)
                           r == DatabaseManager_save_profile(table,
                                    db_manager.encryption_key, profile_data, clock, commit_ok)
                       IN  /\ Markers(last_seen_location) <= MaxSuffixes
                           /\ table' = r.table
                           /\ result' = Call("render_missing_person_form", input,
                                             IF r.out.raised
                                             THEN Returned("Error saving")
                                             ELSE Returned("saved"))
                           /\ UNCHANGED current_profile_id
        /\ UNCHANGED <<sessions, db_manager, store, encryption_key, clock,
                       profiles, issued>>

NextUi ==
    \/ UiSidebar
    \/ UiDelete
    \/ UiProfileForm
    \/ UiMissingPersonForm

SpecUi == InitUi /\ [][NextUi]_vars

(***************************************************************************)
(* Steps and observations the properties speak about.                      *)
(***************************************************************************)
\* This step is a call of save_profile / delete_profile: every action
\* records its call in result, so the operation of result' names the step.
SaveStep   == result'.op = "save_profile"
DeleteStep == result'.op = "delete_profile"

\* The call the last step made: its operation first, so that calls of
\* different operations are told apart by name.
call == <<result.op, result>>

\* What a row holds, read with the key that wrote it.
PayloadOf(row) == JsonLoads(row.encrypted_data.text)

\* load_profile called now under the session's key.
LoadNow(profile_id) == StoreLoad(store, table, encryption_key, profile_id)

NotFound == Returned([found |-> FALSE])
Found(profile_data) == Returned([found |-> TRUE, data |-> profile_data])

(***************************************************************************)
(* C1.  For every record r, after save(r) succeeds, load(r.profile_id)     *)
(* under the same encryption key returns a record equal to r on every      *)
(* stored field.                                                           *)
(***************************************************************************)
C1_SaveLoadRoundTrip ==
    (result.op = "save_profile" /\ ~result.out.raised)
        => LoadNow(result.arg["profile_id"]) = Found(result.arg)

\* A save of a consenting record has succeeded over a row that another save
\* had written before.
C1_Witness ==
    /\ result.op = "save_profile"
    /\ ~result.out.raised
    /\ result.arg["gdpr_consent"] = TRUE
    /\ Stored(table) = ProfileIds

(***************************************************************************)
(* C2.  Saving a record whose gdpr_consent is not exactly true is rejected *)
(* by the store itself: the save fails and no row is created for it.       *)
(***************************************************************************)
C2_StoreRejectsWithoutConsent ==
    /\ (result.op = "save_profile" /\ Get(result.arg, "gdpr_consent", FALSE) # TRUE)
           => result.out.raised
    /\ \A p \in Stored(table) : PayloadOf(table[p])["gdpr_consent"] = TRUE

(***************************************************************************)
(* C3.  load(profile_id) reports a row that exists but cannot be decrypted *)
(* with an outcome distinct from the outcome for a profile_id that has no  *)
(* row.                                                                    *)
(***************************************************************************)
C3_UnreadableDistinctFromMissing ==
    \A p \in Stored(table) \ Decryptable(table, encryption_key) :
        LoadNow(p) # StoreLoad(store, [table EXCEPT ![p] = NoRow], encryption_key, p)

(***************************************************************************)
(* C4.  list_all returns exactly the rows that decrypt successfully: when  *)
(* some stored rows are undecryptable, every other row is still returned   *)
(* and the listing does not abort or raise.                                *)
(***************************************************************************)
C4_ListingIsolatesFailures ==
    LET all == StoreGetAll(store, table, encryption_key)
    IN  /\ ~all.raised
        /\ DOMAIN all.value = Decryptable(table, encryption_key)
        /\ \A p \in DOMAIN all.value : all.value[p] = PayloadOf(table[p])

(***************************************************************************)
(* C5.  save upserts by profile_id: a successful save inserts a row when   *)
(* none exists and otherwise replaces the whole payload and stamps         *)
(* last_updated, keeping created_date; it touches no other row; only saves *)
(* and deletes change the table, so each id has at most one row and that   *)
(* row holds the payload most recently saved for it.                       *)
(***************************************************************************)
C5_SaveUpserts ==
    [][ /\ (SaveStep /\ ~result'.out.raised) =>
              LET profile_id == result'.arg["profile_id"]
              IN  /\ result'.out.value = profile_id
                  /\ table'[profile_id].present
                  /\ PayloadOf(table'[profile_id]) = result'.arg
                  /\ table'[profile_id].last_updated = clock
                  /\ table'[profile_id].created_date =
                         IF table[profile_id].present
                         THEN table[profile_id].created_date
                         ELSE clock
                  /\ \A p \in ProfileIds \ {profile_id} : table'[p] = table[p]
        /\ DeleteStep =>
              \A p \in ProfileIds : table'[p] = table[p] \/ p = result'.arg
        /\ ~(SaveStep \/ DeleteStep) => table' = table
      ]_vars

\* A save has replaced the payload of a row created at an earlier time.
C5_Witness ==
    /\ result.op = "save_profile"
    /\ ~result.out.raised
    /\ LET row == table[result.arg["profile_id"]]
       IN  /\ row.created_date < row.last_updated
           /\ PayloadOf(row) = result.arg
           /\ PayloadOf(row)["created_date"] = clock

(***************************************************************************)
(* C6.  delete(profile_id) returns whether a row existed: a returned value *)
(* is true exactly when the id had a row, a true return has removed the    *)
(* row, and with no row the call returns false without raising and without *)
(* changing the store.                                                     *)
(***************************************************************************)
C6_DeleteReturnsWhetherRowExisted ==
    [][ DeleteStep =>
          LET profile_id == result'.arg
              out        == result'.out
          IN  /\ ~out.raised => out.value = table[profile_id].present
              /\ out = Returned(TRUE) => ~table'[profile_id].present
              /\ ~table[profile_id].present =>
                     out = Returned(FALSE) /\ table' = table
      ]_call

(***************************************************************************)
(* C7.  A save that fails (serialization or encryption error, storage      *)
(* failure at commit) raises to the caller and leaves the table exactly as *)
(* it was; a save that does not raise has stored the record.               *)
(***************************************************************************)
C7_FailedSaveChangesNothing ==
    [][ SaveStep =>
          \/ result'.out.raised /\ table' = table
          \/ /\ ~result'.out.raised
             /\ table'[result'.out.value].present
             /\ PayloadOf(table'[result'.out.value]) = result'.arg
      ]_vars

\* The commit of an update has failed: the row still holds the payload of
\* the earlier save.
C7_Witness ==
    /\ result.op = "save_profile"
    /\ result.out = Raised("SQLAlchemyError")
    /\ "profile_id" \in DOMAIN result.arg
    /\ table[result.arg["profile_id"]].present
    /\ PayloadOf(table[result.arg["profile_id"]]) # result.arg

(***************************************************************************)
(* C8.  Every stored row has last_updated >= created_date, in its columns  *)
(* and in its payload, and a row's last_updated never decreases from one   *)
(* save to the next.                                                       *)
(***************************************************************************)
C8_TimestampsOrdered ==
    [][ \A p \in Stored(table') :
          /\ table'[p].last_updated >= table'[p].created_date
          /\ PayloadOf(table'[p])["last_updated"] >= PayloadOf(table'[p])["created_date"]
          /\ table[p].present => table'[p].last_updated >= table[p].last_updated
      ]_vars

\* A row created at one time has been saved again at a later time.
C8_Witness ==
    \E p \in Stored(table) :
        /\ table[p].created_date < table[p].last_updated
        /\ table[p].last_updated = clock
        /\ result.op = "save_profile"
        /\ result.out = Returned(p)

(***************************************************************************)
(* C10.  The age of a record returned by load is the age computed from its *)
(* date of birth at the time of the read, whatever age an earlier save     *)
(* wrote.                                                                  *)
(***************************************************************************)
C10_DerivedRecomputedOnRead ==
    \A p \in ProfileIds :
        LET loaded == LoadNow(p)
        IN  (~loaded.raised /\ loaded.value.found /\ loaded.value.data["dob"].day # NoDate)
                => loaded.value.data["age"] = calculate_age(loaded.value.data["dob"].day, clock)

(***************************************************************************)
(* C9.  A record's profile_id and created_date are assigned on its first   *)
(* save and are unchanged by every later save of that record, whichever    *)
(* form performs the save.                                                 *)
(***************************************************************************)
C9_IdentityAssignedOnce ==
    [][ \A id \in DOMAIN AppRecords \cap DOMAIN AppRecords' :
          /\ AppRecords'[id]["profile_id"] = id
          /\ "created_date" \in DOMAIN AppRecords[id]
          /\ "created_date" \in DOMAIN AppRecords'[id]
          /\ AppRecords'[id]["created_date"] = AppRecords[id]["created_date"]
      ]_vars

(***************************************************************************)
(* C11.  A row encrypted under one key is never returned as data by        *)
(* load_profile or get_all_profiles of a store that holds a different      *)
(* key: load does not yield the record and the listing does not contain    *)
(* it.                                                                     *)
(***************************************************************************)
C11_OrphanedRowsNeverReturned ==
    \A p \in Stored(table) :
        table[p].encrypted_data.key # encryption_key =>
            LET loaded == LoadNow(p)
                all    == StoreGetAll(store, table, encryption_key)
            IN  /\ loaded.raised \/ ~loaded.value.found
                /\ all.raised \/ p \notin DOMAIN all.value

\* A listing in a later session has returned the row written in that session
\* while a row of the earlier session is still stored.
C11_Witness ==
    /\ result.op = "get_all_profiles"
    /\ ~result.out.raised
    /\ DOMAIN result.out.value # {}
    /\ \E p \in Stored(table) :
           /\ table[p].encrypted_data.key # encryption_key
           /\ p \notin DOMAIN result.out.value

(***************************************************************************)
(* C12.  geocode_location never raises: for every text, None and the empty *)
(* text included, with geopy missing and with any exception of the         *)
(* geocoder, it returns a pair of coordinates or (None, None).             *)
(***************************************************************************)
C12_GeocodeNeverRaises ==
    result.op = "geocode_location" =>
        /\ ~result.out.raised
        /\ \/ result.out.value = NoCoordinates
           \/ /\ result.out.value[1] # "None"
              /\ result.out.value[2] # "None"

\* The geocoder has failed on a text that carries no coordinates, and the
\* caller has got (None, None).
C12_Witness ==
    /\ result.op = "geocode_location"
    /\ result.arg.geocoder = "error"
    /\ result.arg.location_text # NoneText
    /\ clean_location(result.arg.location_text) # <<>>
    /\ result.out = Returned(NoCoordinates)

(***************************************************************************)
(* C13.  extract_coordinates returns the parsed (lat, lng) when the text   *)
(* ends with a well-formed marker "Coordinates: lat, lng" in any spelling  *)
(* of the marker, with or without a closing bracket; it returns            *)
(* (None, None) for a text without a marker and for the empty text; and    *)
(* when what follows the marker is malformed it returns (None, None) and   *)
(* does not raise.  What follows the marker is the text up to the next     *)
(* marker, if there is one.                                                *)
(***************************************************************************)
\* Blanks left out.
Solid(text) == SelectSeq(text, LAMBDA tok : tok # " ")

\* lat , lng with or without the closing bracket, blanks apart.
WellFormedCoordinates(text) ==
    LET s == Solid(text)
    IN  /\ Len(s) \in {3, 4}
        /\ s[1] \in NumberTokens
        /\ s[2] = ","
        /\ s[3] \in NumberTokens
        /\ Len(s) = 4 => s[4] = ")"

PosterCall == result.op = "create_missing_person_poster"

\* What the Location Resolver answers for the record's last-seen text.
Resolved(profile_data, geocoder) ==
    geocode_location(Get(profile_data, "last_seen_location", <<>>), geocoder).value

PageKinds(pages) == [i \in DOMAIN pages |-> pages[i].page]

\* C14: the poster has a map page only if the Location Resolver yields
\* coordinates for the last-seen text; when it yields none, generation
\* fails only if writing the document out fails, and the poster consists of
\* exactly the main page followed by the important-information page.
C14_MapPageOnlyWithCoordinates ==
    PosterCall =>
        LET profile_data == result.arg.profile_data
            env          == result.arg.env
            coordinates  == Resolved(profile_data, env.geocoder)
        IN  /\ ~result.out.raised =>
                 ((\E i \in DOMAIN result.out.value :
                       result.out.value[i].page = "map")
                  => coordinates # NoCoordinates)
            /\ coordinates = NoCoordinates =>
                 /\ result.out.raised <=> ~env.output
                 /\ ~result.out.raised =>
                        PageKinds(result.out.value) = <<"main", "info">>

\* A record with a last-seen date and a last-seen location that no geocoder
\* resolves got a two-page poster.
C14_Witness ==
    /\ PosterCall
    /\ "last_seen_date" \in DOMAIN result.arg.profile_data
    /\ Get(result.arg.profile_data, "last_seen_location", <<>>) = <<"High St">>
    /\ result.arg.env.folium = "installed"
    /\ result.arg.env.geocoder = "nothing"
    /\ ~result.out.raised
    /\ Len(result.out.value) = 2

\* The call recorded in result is a one-page profile built by either module.
ProfileCall == result.op \in {"create_profile_pdf", "app.create_profile_pdf"}

\* C15: in both document builders a failing enrichment step (photo embed,
\* map page, QR code) is skipped and a document is still returned; the
\* builder raises exactly when the base assembly call (doc.build,
\* poster.output) fails.
C15_OnlyBaseAssemblyPropagates ==
    /\ ProfileCall => (result.out.raised <=> ~result.arg.build_ok)
    /\ PosterCall  => (result.out.raised <=> ~result.arg.env.output)

\* blank: absent, empty or only white space
Blank(text) == Strip(text) = <<>>

\* The information page shows for a short field what is expected of it: the
\* stored short value when there is one, the summary of the long field when
\* there is none and the long field has content.
ShowsShortForm(shown, profile_data, short_key, long_key) ==
    LET short == Get(profile_data, short_key, <<>>)
        long  == Get(profile_data, long_key, <<>>)
    IN  /\ ~Blank(short) => shown = short
        /\ (Blank(short) /\ ~Blank(long)) =>
               shown = generate_short_summary(long, DefaultMaxWords)

\* C16: on the poster's important-information page each of medical needs,
\* communication and places they might go shows the stored short value when
\* it is not blank, and otherwise the short form derived from the long field
\* (its first sentence, or its first words).
C16_ShortFormsDerivedAtGeneration ==
    (PosterCall /\ ~result.out.raised) =>
        LET profile_data == result.arg.profile_data
            info  == result.out.value[Len(result.out.value)]
        IN  /\ ShowsShortForm(info.lines[1].text, profile_data,
                              "medical_info_short", "medical_info")
            /\ ShowsShortForm(info.lines[2].text, profile_data,
                              "communication_short", "communication")
            /\ ShowsShortForm(info.lines[3].text, profile_data,
                              "places_might_go_short", "places_might_go")

\* The outline of a story: the kind of each element, with the heading text
\* of headings and the row labels of tables, and without the content.
Outline(story) ==
    [i \in DOMAIN story |->
        [kind   |-> story[i].kind,
         label  |-> IF story[i].kind = "Heading" THEN story[i].text ELSE <<>>,
         labels |-> [r \in DOMAIN story[i].rows |-> story[i].rows[r].label]]]

\* The spacer that follows the photo goes with it.
WithoutPhotoBlock(story) ==
    IF \E i \in DOMAIN story : story[i].kind = "Image"
    THEN LET at == CHOOSE i \in DOMAIN story : story[i].kind = "Image"
         IN  SubSeq(story, 1, at - 1) \o SubSeq(story, at + 2, Len(story))
    ELSE story

\* The elements that carry headings and tables, in order.
SectionsOf(story) ==
    LET marks == SelectSeq(story, LAMBDA e : e.kind \in {"Title", "Heading", "Table"})
    IN  [i \in DOMAIN marks |->
            IF marks[i].kind = "Heading" THEN marks[i].text[1] ELSE marks[i].kind]

\* The outline of the profile of a record with every field absent.
FixedOutline == Outline(create_profile_pdf(<<>>, "absent", TRUE).value)

\* C17: the one-page profile built by pdf_generator has the same sequence
\* of sections and the same table rows for every record: title, basic
\* information table, physical description table, then important to me,
\* how to support, communication, medical information, places I might go,
\* travel routines and the confidentiality notice; a field without content
\* gives an empty cell or paragraph; only the photo is conditional.
C17_ProfileLayoutFixed ==
    (result.op = "create_profile_pdf" /\ ~result.out.raised) =>
        LET story == result.out.value
        IN  /\ Outline(WithoutPhotoBlock(story)) = FixedOutline
            /\ SectionsOf(story) =
                   <<"Title", "Table", "Important Information to Keep Me Safe",
                     "Physical Description:", "Table",
                     "What's Important To Me:", "How Best To Support Me:",
                     "How I Communicate:", "Medical Information:",
                     "Places I Might Go:", "Travel Patterns and Routines:">>
            /\ story[Len(story)] = Paragraph(<<"CONFIDENTIAL">>)
            /\ (\E i \in DOMAIN story : story[i].kind = "Image")
                   <=> (HasPhoto(result.arg.profile_data, result.arg.photo)
                        /\ result.arg.photo = "ok")

\* A profile was built for a record without what is important to the
\* person and without medical information: both sections are there, empty.
C17_Witness ==
    /\ result.op = "create_profile_pdf"
    /\ ~result.out.raised
    /\ "important_to_me" \notin DOMAIN result.arg.profile_data
    /\ "medical_info" \notin DOMAIN result.arg.profile_data
    /\ \E i \in DOMAIN result.out.value :
           /\ result.out.value[i] = Heading("What's Important To Me:")
           /\ result.out.value[i + 1] = Paragraph(<<>>)

\* missing_info_complete of the document page: both last-seen fields are set.
missing_info_complete(profile_data) ==
    /\ Get(profile_data, "last_seen_date", <<>>) # <<>>
    /\ Get(profile_data, "last_seen_location", <<>>) # <<>>

\* C18: the poster builder refuses (raises, returns no document) when the
\* record lacks the last-seen date or the last-seen location, whoever
\* calls it.
C18_PosterRequiresLastSeen ==
    (PosterCall /\ ~missing_info_complete(result.arg.profile_data))
        => result.out.raised

InRange(data) ==
    /\ data.height_cm \in HEIGHT_MIN_CM..HEIGHT_MAX_CM
    /\ data.weight_kg \in WEIGHT_MIN_KG..WEIGHT_MAX_KG

\* C19: a record whose height is outside 30..250 cm or whose weight is
\* outside 1..250 kg is rejected when it is normalized and written: the
\* write raises and the table holds no row for it, neither with the values
\* given nor with values clamped into range.
C19_OutOfRangeRejected ==
    (result.op \in {"save_profile", "from_dict.save_profile"}
        /\ ~InRange(result.arg))
    => /\ result.out.raised
       /\ ~table[result.arg.profile_id].present

NearestInch(h) ==
    CHOOSE n \in 0..(h + 1) :
        /\ 2 * (CmPerInch * n - 100 * h) <= CmPerInch
        /\ 2 * (100 * h - CmPerInch * n) <= CmPerInch

\* C21: for every height h in 30..250, format_height(h) and Profile.height
\* show h cm with feet f and inches i such that 0 <= i <= 11 and 12 f + i is
\* h in inches rounded to the nearest inch; 170 gives 5' 7" and 182 gives
\* 6' 0".
C21_FormatHeight ==
    result.op \in {"format_height", "Profile.height"} =>
        LET h    == result.arg
            text == result.out.value
        IN  /\ text.height_cm = h
            /\ text.inches \in 0..11
            /\ 12 * text.feet + text.inches = NearestInch(h)
            /\ h = 170 => (text.feet = 5 /\ text.inches = 7)
            /\ h = 182 => (text.feet = 6 /\ text.inches = 0)

\* 182 cm was formatted: 11.65 inches over five feet round to twelve and
\* roll over.
C21_Witness ==
    /\ result.op = "format_height"
    /\ result.arg = 182
    /\ result.out.value = HeightText(182, 6, 0)

\* C22: when two callers save records with one profile_id concurrently,
\* under every interleaving of their queries and commits, also when no row
\* exists yet, every save completes without an error, and after each commit
\* the table holds exactly the payload of the save that committed last.
C22_LastWriteWins ==
    result.op = "save_profile.commit" =>
        /\ ~result.out.raised
        /\ table[RacedId].present
        /\ PayloadOf(table[RacedId]) = result.arg.profile_data

\* C23: within one session get_database_manager returns the manager held
\* in the session state, a manager once set is not replaced until the
\* session ends, and in every reachable state the manager's encryption key
\* is the session's encryption key, also when the manager is the fallback
\* made after a failed creation.
C23_ManagerKeyIsSessionKey ==
    /\ db_manager # NoManager => db_manager.encryption_key = encryption_key
    /\ result.op = "get_database_manager" => result.out.value = db_manager

\* The additional-image list a record holds; none stored is the empty list.
ImagesOf(profile_data) == Get(profile_data, "additional_images", <<>>)

IsPrefix(s, t) == Len(s) <= Len(t) /\ \A i \in DOMAIN s : s[i] = t[i]

FormSaved ==
    /\ result.op \in {"profile_form", "missing_person_form"}
    /\ ~result.out.raised

\* C24: after a save by the profile form or the missing-person form, the
\* additional-image list the record held before the save is a prefix of the
\* list it holds after the save.
C24_ImagesAppendOnly ==
    FormSaved =>
        IsPrefix(ImagesOf(result.arg.before), ImagesOf(AppRecords[result.out.value]))

\* The location text with the marker and everything after it removed: the
\* text before the first marker in lower case, without the blanks around it
\* and without the bracket that opened the suffix; the text itself when it
\* holds no marker.
WithoutMarker(text) ==
    IF \E i \in DOMAIN text : text[i] \in MarkerTokens
    THEN LET first  == Lowest({i \in DOMAIN text : text[i] \in MarkerTokens})
             before == Strip(Lower(SubSeq(text, 1, first - 1)))
         IN  IF before # <<>> /\ before[Len(before)] = "("
             THEN Strip(SubSeq(before, 1, Len(before) - 1))
             ELSE before
    ELSE text

GeocodeCall ==
    /\ result.op = "geocode_location"
    /\ result.arg.location_text # NoneText

QuerySent == geocoder_query(result.arg.location_text, result.arg.geocoder)

UiStored(profile_id) ==
    DatabaseManager_load_profile(table, db_manager.encryption_key, profile_id).value

\* C26: after the profile form is submitted with a name and with consent,
\* current_profile_id names a row of the store that holds the submitted
\* name and consent.
C26_SubmitSaves ==
    (/\ result.op = "render_profile_form"
     /\ result.arg.name # ""
     /\ result.arg.gdpr_consent) =>
        /\ current_profile_id # None
        /\ UiStored(current_profile_id).found
        /\ UiStored(current_profile_id).data["name"] = result.arg.name
        /\ UiStored(current_profile_id).data["gdpr_consent"] = TRUE

\* C27: after the profile form saves an existing record, every
\* missing-episode field the record held before the save (last-seen date,
\* time, location and clothing, reference number, the three short texts) is
\* still held with the same value.
C27_ProfileFormKeepsEpisode ==
    (/\ result.op = "profile_form"
     /\ ~result.out.raised
     /\ "profile_id" \in DOMAIN result.arg.before) =>
        \A key \in EpisodeKeys \cap DOMAIN result.arg.before :
            /\ key \in DOMAIN AppRecords[result.out.value]
            /\ AppRecords[result.out.value][key] = result.arg.before[key]

\* C28: after a missing-person submission that saved, made with the
\* pre-filled location left as it was and with coordinates from the
\* browser, extract_coordinates of the stored last_seen_location returns
\* the coordinates of that submission.
C28_LatestCoordinatesParse ==
    (/\ result.op = "render_missing_person_form"
     /\ result.out.value = "saved"
     /\ result.arg.typed = NoneText
     /\ result.arg.loc # NoCoordinates) =>
        extract_coordinates(UiStored(current_profile_id).data["last_seen_location"])
            = Returned(result.arg.loc)

\* The profiles the sidebar lists, in the order of their entries.
Listed ==
    Ascending(DOMAIN DatabaseManager_get_all_profiles(table, db_manager.encryption_key).value)

\* C29: when the user chooses the k-th profile entry of the sidebar (entry
\* k + 1 of the select box, after "Create New Profile"), current_profile_id
\* becomes the id of the k-th listed profile; when the user chooses nothing
\* and current_profile_id names a listed profile, the entry shown as
\* selected is that profile's.
C29_SidebarSelectsKth ==
    result.op = "render_sidebar" =>
        /\ result.arg.entry > 1 =>
               current_profile_id = Listed[result.arg.entry - 1]
        /\ (/\ result.arg.entry = 0
            /\ \E k \in DOMAIN Listed : Listed[k] = result.arg.current) =>
               Listed[result.arg.selected - 1] = result.arg.current

\* C30: after the profile form saves a stored record whose build, hair
\* colour and eye colour inputs the user left untouched, the record holds
\* the same build, hair_color and eye_color as before the save.
C30_UntouchedAppearanceKept ==
    (/\ result.op = "profile_form"
     /\ ~result.out.raised
     /\ "profile_id" \in DOMAIN result.arg.before
     /\ result.arg.build = Untouched
     /\ result.arg.hair_color = Untouched
     /\ result.arg.eye_color = Untouched) =>
        \A key \in {"build", "hair_color", "eye_color"} :
            AppRecords[result.out.value][key] = result.arg.before[key]

=============================================================================
